---- MODULE Spec2Model ----
(***************************************************************************)
(* MHGI: free-float market-cap weighted index (divisor method).            *)
(* Model of backend/index_engine.py, backend/scheduler.py,                 *)
(* backend/data_fetcher.py, backend/database.py, backend/main.py and       *)
(* backend/websocket_manager.py.                                           *)
(*                                                                         *)
(* Floating point values are modelled as exact rationals <<n, d>>, d > 0;  *)
(* <<0, 0>> stands for Python's None.  Calendar dates are day numbers,     *)
(* whose order is the order of the "%Y-%m-%d" strings the code compares.   *)
(***************************************************************************)
EXTENDS Integers, Sequences, FiniteSets, TLC

\* ------------------------------------------------------------------ bounds
MaxDay == 3
MaxPrice == 2

\* ------------------------------------------------------- program constants
BaseValue == 1000
BaseDate == 1
FallbackShares == 1000000000
CALCULATION_HOUR == 17
CALCULATION_MINUTE == 0
CHECK_INTERVAL == 60

\* Shares are counted in units of a hundred million shares, so that products
\* of prices and share counts stay inside TLC's integers.
ShareUnit == 10 ^ 8

TickerUniverse == {"A", "B"}
Dates == 0 .. MaxDay
Days == BaseDate .. MaxDay

\* --------------------------------------------------------------- rationals
None == <<0, 0>>
IsNone(q) == q[2] = 0

Abs(x) == IF x < 0 THEN -x ELSE x

RECURSIVE GCD(_, _)
GCD(a, b) == IF b = 0 THEN a ELSE GCD(b, a % b)

RNorm(n, d) ==
    LET g == GCD(Abs(n), Abs(d))
        s == IF d < 0 THEN -1 ELSE 1
    IN  <<(s * n) \div g, (s * d) \div g>>

R(n) == <<n, 1>>
RAdd(p, q) == RNorm(p[1] * q[2] + q[1] * p[2], p[2] * q[2])
RSub(p, q) == RNorm(p[1] * q[2] - q[1] * p[2], p[2] * q[2])
RMul(p, q) == RNorm(p[1] * q[1], p[2] * q[2])
RDiv(p, q) == RNorm(p[1] * q[2], p[2] * q[1])
RLt(p, q) == p[1] * q[2] < q[1] * p[2]
RIsZero(p) == p[1] = 0
RPos(p) == p[1] > 0

\* Long division: <<floor(rem * 10^k / d), (rem * 10^k) % d>> for 0 <= rem < d.
RECURSIVE Scaled(_, _, _)
Scaled(rem, d, k) ==
    IF k = 0 THEN <<0, rem>>
    ELSE LET x == rem * 10
             rest == Scaled(x % d, d, k - 1)
         IN  <<(x \div d) * (10 ^ (k - 1)) + rest[1], rest[2]>>

\* Python round(x, places): nearest multiple of 10^-places, ties to even.
Round(q, places) ==
    LET scale == 10 ^ places
        frac == Scaled(q[1] % q[2], q[2], places)
        fl == (q[1] \div q[2]) * scale + frac[1]
        r == frac[2]
        up == IF 2 * r > q[2] THEN 1
              ELSE IF 2 * r < q[2] THEN 0
              ELSE IF fl % 2 = 0 THEN 0 ELSE 1
    IN  RNorm(fl + up, scale)

RECURSIVE SumOver(_, _)
SumOver(S, f) ==
    IF S = {} THEN R(0)
    ELSE LET x == CHOOSE y \in S : TRUE
         IN  RAdd(f[x], SumOver(S \ {x}, f))

\* ------------------------------------------------------ constituent config
\* constituents.json: free_float_factor per ticker (default 0.5).
FreeFloatFactor(t) == IF t = "A" THEN <<1, 2>> ELSE <<1, 1>>

\* shares_outstanding the provider reports for a ticker, in ShareUnit units.
ProviderShares(t) == IF t = "A" THEN 4 ELSE 1

\* IndexEngine._get_shares: fall back to one billion shares when unknown.
GetShares(info, t) ==
    IF info[t] = 0 THEN FallbackShares \div ShareUnit ELSE info[t]

\* ------------------------------------------------------------------- state
VARIABLES
    today,              \* datetime.now() date part, a day number
    slot,               \* time of day: 0 before 17:00, 1 = 17:00, 2 = 17:01, 3 later
    provider,           \* the market-data provider's daily closes, 0 = no bar
    cfg_file,           \* constituents.json: the constituent tickers on disk
    has_db,             \* a MongoDB manager is injected and connected
    faults,             \* the collaborators that can fail in this run
    stock_prices,       \* MongoDB timeseries collection, rows per ticker
    db_history,         \* MongoDB index_history collection, rows keyed by date
    db_state,           \* MongoDB engine_state document, <<>> when absent
    json_history,       \* index_history.json, <<>> when absent or empty
    pc,                 \* lifespan position of the process
    tickers,            \* IndexEngine.config constituents
    stocks_info,        \* IndexEngine._stocks_info shares, 0 = unknown
    divisor,            \* IndexEngine.divisor
    last_ff_mcap_sum,   \* IndexEngine._last_ff_mcap_sum
    index_history,      \* IndexEngine.index_history
    last_snapshot,      \* IndexEngine.last_snapshot
    running,            \* DailyEODScheduler._running
    last_calc_date,     \* DailyEODScheduler._last_calc_date, 0 = ""
    ticked,             \* the loop has polled in the current minute
    last_payload,       \* the last message handed to ws_manager.broadcast
    active_connections, \* ConnectionManager.active_connections, a list of clients
    bcast,              \* the broadcast() call in progress, if any
    task,               \* DailyEODScheduler._task: where the loop task is suspended
    engine_ops,         \* the engine operations begun and not yet returned
    savers,             \* the save_stock_prices calls in progress, per caller
    obs                 \* what the last operation did (observation only)

envVars == <<today, slot, provider, cfg_file, has_db, faults>>
storeVars == <<stock_prices, db_history, db_state, json_history>>
engineVars == <<tickers, stocks_info, divisor, last_ff_mcap_sum, index_history,
                last_snapshot>>
schedVars == <<running, last_calc_date, ticked, last_payload>>
wsVars == <<active_connections, bcast>>
taskVars == <<task, engine_ops, savers>>
vars == <<envVars, storeVars, pc, engineVars, schedVars, wsVars, taskVars, obs>>

\* ------------------------------------------------------------- data frames
\* A price row is <<date, close>>; a DataFrame is a sequence of rows.
EmptyDF == <<>>

RowDates(df) == {df[i][1] : i \in 1 .. Len(df)}

RECURSIVE InsertByDate(_, _)
InsertByDate(sorted, row) ==
    IF sorted = <<>> THEN <<row>>
    ELSE IF row[1] < Head(sorted)[1] THEN <<row>> \o sorted
    ELSE <<Head(sorted)>> \o InsertByDate(Tail(sorted), row)

\* Stable sort by date: sort_index(), cursor.sort(TIME_FIELD, 1).
RECURSIVE SortByDate(_)
SortByDate(df) ==
    IF df = <<>> THEN <<>>
    ELSE InsertByDate(SortByDate(SubSeq(df, 1, Len(df) - 1)), df[Len(df)])

KeepDuplicated(df) == [i \in 1 .. Len(df) |-> <<df[i], i>>]

DropDuplicatedKeepFirst(df) ==
    SelectSeq([i \in 1 .. Len(df) |-> <<df[i], i>>],
              LAMBDA p : \A j \in 1 .. (p[2] - 1) : df[j][1] # p[1][1])

\* combined[~combined.index.duplicated(keep="last")]
DropDuplicatedKeepLast(df) ==
    SelectSeq([i \in 1 .. Len(df) |-> <<df[i], i>>],
              LAMBDA p : \A j \in (p[2] + 1) .. Len(df) : df[j][1] # p[1][1])

Rows(pairs) == [i \in 1 .. Len(pairs) |-> pairs[i][1]]

\* Rows of the provider's world for ticker t with dates in lo .. hi.
RECURSIVE WorldRows(_, _, _)
WorldRows(t, lo, hi) ==
    IF hi < lo \/ hi < 0 THEN <<>>
    ELSE WorldRows(t, lo, hi - 1) \o
         (IF hi \in Dates /\ provider[t][hi] # 0
          THEN <<(<<hi, provider[t][hi]>>)>> ELSE <<>>)

\* DataFetcher._fetch_historical_full: yf.download(period="max").
FetchHistoricalFull(t, up) ==
    IF up THEN WorldRows(t, 0, today) ELSE EmptyDF

\* DataFetcher._fetch_historical_range: yf.download(start, end), end being
\* exclusive.  The provider may also return the bar of the boundary day before
\* start.
FetchHistoricalRange(t, start, end, up, boundary) ==
    IF up THEN WorldRows(t, IF boundary THEN start - 1 ELSE start, end - 1)
    ELSE EmptyDF

\* ----------------------------------------------------------- MongoDBManager
MaxOf(S) == CHOOSE x \in S : \A y \in S : y <= x

\* MongoDBManager.get_last_price_date: -1 stands for None.
GetLastPriceDate(t, dbUp) ==
    IF dbUp /\ stock_prices[t] # <<>>
    THEN MaxOf(RowDates(stock_prices[t])) ELSE -1

\* MongoDBManager.get_stock_prices(ticker, start_date).
GetStockPrices(t, start_date, dbUp) ==
    IF dbUp
    THEN SortByDate(SelectSeq(stock_prices[t], LAMBDA r : r[1] >= start_date))
    ELSE <<>>

SaveStockPricesUpsert(stored, prices, dbUp) ==
    IF ~dbUp \/ prices = <<>> THEN stored
    ELSE [i \in 1 .. Len(stored) |->
             LET same == {j \in 1 .. Len(prices) : prices[j][1] = stored[i][1]}
             IN  IF same = {} THEN stored[i] ELSE prices[CHOOSE j \in same : TRUE]]
         \o SelectSeq(prices, LAMBDA p : p[1] \notin RowDates(stored))

SaveStockPricesAll(stored, prices, dbUp) ==
    IF ~dbUp \/ prices = <<>> THEN stored ELSE stored \o prices

\* MongoDBManager.save_stock_prices: rows of dates already stored are skipped.
SaveStockPrices(stored, prices, dbUp) ==
    IF ~dbUp \/ prices = <<>> THEN stored
    ELSE stored \o SelectSeq(prices, LAMBDA p : p[1] \notin RowDates(stored))

RequestStartSameDay(last_date) == last_date

\* start: the day after the last stored date.
RequestStart(last_date) == last_date + 1

\* One iteration of DataFetcher.fetch_historical_incremental for a ticker:
\* the merged frame it returns (has = FALSE: no result[ticker]) and the
\* rows of the collection afterwards.
SyncTicker(t, base_date, up, boundary, dbUp) ==
    LET last_date == GetLastPriceDate(t, dbUp)
        existing_data == IF last_date >= 0
                         THEN GetStockPrices(t, base_date, dbUp) ELSE <<>>
        start == RequestStart(last_date)
        new_data == IF last_date >= 0
                    THEN IF start <= today
                         THEN FetchHistoricalRange(t, start, today, up, boundary)
                         ELSE EmptyDF
                    ELSE FetchHistoricalFull(t, up)
        stored == IF new_data # <<>>
                  THEN SaveStockPrices(stock_prices[t], new_data, dbUp)
                  ELSE stock_prices[t]
        merged == IF existing_data # <<>> /\ new_data # <<>>
                  THEN SortByDate(Rows(DropDuplicatedKeepLast(existing_data \o new_data)))
                  ELSE IF existing_data # <<>> THEN existing_data
                  ELSE new_data
    IN  [has |-> existing_data # <<>> \/ new_data # <<>>,
         df |-> merged,
         stored |-> stored,
         fetched |-> Len(new_data),
         new_data |-> new_data,
         requested |-> IF last_date >= 0 /\ start <= today THEN <<"range", start, today>>
                       ELSE IF last_date >= 0 THEN <<>> ELSE <<"full">>]

\* The historical fetch for every configured ticker: avail are the tickers the
\* provider answers for, dbUp says whether MongoDB answers during the call.
\* DataFetcher.fetch_historical (no database): one batch download.
FetchHistorical(tk, avail) ==
    [t \in TickerUniverse |->
        [has |-> t \in tk /\ avail # {},
         df |-> IF t \in tk /\ t \in avail THEN WorldRows(t, 0, today) ELSE EmptyDF]]

FetchHistoricalIncrementalAbort(tk, base_date, avail, boundary, dbUp) ==
    [t \in TickerUniverse |->
        IF t \in tk
        THEN LET r == SyncTicker(t, base_date, t \in avail, boundary, dbUp)
             IN  IF tk \subseteq avail THEN r
                 ELSE [r EXCEPT !.has = FALSE, !.df = EmptyDF]
        ELSE [has |-> FALSE, df |-> EmptyDF, stored |-> stock_prices[t],
              fetched |-> 0, new_data |-> EmptyDF, requested |-> <<>>]]

\* DataFetcher.fetch_historical_incremental over all tickers.
FetchHistoricalIncremental(tk, base_date, avail, boundary, dbUp) ==
    [t \in TickerUniverse |->
        IF t \in tk
        THEN SyncTicker(t, base_date, t \in avail, boundary, dbUp)
        ELSE [has |-> FALSE, df |-> EmptyDF, stored |-> stock_prices[t],
              fetched |-> 0, new_data |-> EmptyDF, requested |-> <<>>]]

\* The frames the engine works on, and the collection afterwards.
Historical(tk, avail, boundary, dbUp) ==
    IF has_db
    THEN LET r == FetchHistoricalIncremental(tk, BaseDate, avail, boundary, dbUp)
         IN  [frames |-> [t \in TickerUniverse |-> [has |-> r[t].has, df |-> r[t].df]],
              stored |-> [t \in TickerUniverse |-> r[t].stored]]
    ELSE [frames |-> FetchHistorical(tk, avail), stored |-> stock_prices]

\* ------------------------------------------------------------- IndexEngine
NoSnapshot == [ready |-> FALSE]

\* df.loc[dt, "Close"] when dt is in the index, else the close of the last
\* row on or before dt; 0 when there is no such row.
CloseOnOrBefore(df, dt) ==
    LET on == {i \in 1 .. Len(df) : df[i][1] = dt}
        before == {i \in 1 .. Len(df) : df[i][1] <= dt}
    IN  IF on # {} THEN df[MaxOf(on)][2]
        ELSE IF before # {} THEN df[MaxOf(before)][2]
        ELSE 0

\* _calculate_base_divisor: the price a ticker enters the base sum with.
BasePrice(df) ==
    LET p == CloseOnOrBefore(df, BaseDate)
    IN  IF p # 0 THEN p ELSE df[1][2]

MarketCap(info, t, price) == RMul(R(price), R(GetShares(info, t)))
FFMarketCap(info, t, price) == RMul(MarketCap(info, t, price), FreeFloatFactor(t))

\* _calculate_base_divisor: sum of the free-float market caps on the base date.
BaseFFMcapSum(tk, info, frames) ==
    LET used == {t \in tk : frames[t].has /\ frames[t].df # EmptyDF}
    IN  SumOver(used, [t \in used |-> FFMarketCap(info, t, BasePrice(frames[t].df))])

BaseDivisor(sum) == IF RPos(sum) THEN RDiv(sum, R(BaseValue)) ELSE R(1)

EngineState(div, ffsum, tk, history) ==
    [divisor |-> div, last_ff_mcap_sum |-> ffsum, num_constituents |-> Cardinality(tk),
     last_history_date |-> IF history # <<>> THEN history[Len(history)].date ELSE 0]

\* MongoDBManager.save_engine_state (via IndexEngine._save_engine_state).
SaveEngineState(div, ffsum, tk, history, dbUp) ==
    IF has_db /\ dbUp THEN <<EngineState(div, ffsum, tk, history)>> ELSE db_state

\* ---- ledger
RECURSIVE InsertEntry(_, _)
InsertEntry(sorted, e) ==
    IF sorted = <<>> THEN <<e>>
    ELSE IF e.date < Head(sorted).date THEN <<e>> \o sorted
    ELSE <<Head(sorted)>> \o InsertEntry(Tail(sorted), e)

\* result.sort(key=lambda x: x["date"]), a stable sort.
RECURSIVE SortEntries(_)
SortEntries(h) ==
    IF h = <<>> THEN <<>>
    ELSE InsertEntry(SortEntries(SubSeq(h, 1, Len(h) - 1)), h[Len(h)])

HistoryDatesNone(h) == {}

\* existing_dates: the dates of the ledger's entries.
HistoryDates(h) == {h[i].date : i \in 1 .. Len(h)}

\* update_one({"date": e["date"]}, {"$set": e}, upsert=True) on a collection
\* read back sorted by date.
UpsertDoc(coll, e) ==
    IF e.date \in HistoryDates(coll)
    THEN [i \in 1 .. Len(coll) |-> IF coll[i].date = e.date THEN e ELSE coll[i]]
    ELSE InsertEntry(coll, e)

RECURSIVE UpsertAll(_, _)
UpsertAll(coll, entries) ==
    IF entries = <<>> THEN coll
    ELSE UpsertAll(UpsertDoc(coll, Head(entries)), Tail(entries))

SaveHistoryDbLastOnly(history, dbUp) ==
    IF has_db /\ dbUp /\ history # <<>>
    THEN UpsertDoc(db_history, history[Len(history)]) ELSE db_history

\* IndexEngine._save_history: MongoDB bulk upsert, then the JSON backup.
SaveHistoryDb(history, dbUp) ==
    IF has_db /\ dbUp THEN UpsertAll(db_history, history) ELSE db_history

SaveHistoryJson(history, jsonOk) ==
    IF jsonOk THEN history ELSE json_history

MakeEntryBaseDivisor(date, index_value, prev_value, total_ff_mcap, total_mcap, div, count) ==
    LET change == RSub(index_value, prev_value)
        change_pct == IF RPos(prev_value)
                      THEN RMul(RDiv(change, prev_value), R(100)) ELSE R(0)
    IN  [date |-> date,
         value |-> Round(index_value, 2),
         open |-> Round(index_value, 2),
         high |-> Round(index_value, 2),
         low |-> Round(index_value, 2),
         close |-> Round(index_value, 2),
         previous_close |-> Round(prev_value, 2),
         change |-> Round(change, 2),
         change_percent |-> Round(change_pct, 4),
         ff_mcap_sum |-> total_ff_mcap,
         total_mcap |-> total_mcap,
         divisor |-> RDiv(total_ff_mcap, R(BaseValue)),
         num_constituents |-> count]

\* The ledger entry of a date, as calculate_eod_index and the backfill build it.
MakeEntry(date, index_value, prev_value, total_ff_mcap, total_mcap, div, count) ==
    LET change == RSub(index_value, prev_value)
        change_pct == IF RPos(prev_value)
                      THEN RMul(RDiv(change, prev_value), R(100)) ELSE R(0)
    IN  [date |-> date,
         value |-> Round(index_value, 2),
         open |-> Round(index_value, 2),
         high |-> Round(index_value, 2),
         low |-> Round(index_value, 2),
         close |-> Round(index_value, 2),
         previous_close |-> Round(prev_value, 2),
         change |-> Round(change, 2),
         change_percent |-> Round(change_pct, 4),
         ff_mcap_sum |-> total_ff_mcap,
         total_mcap |-> total_mcap,
         divisor |-> div,
         num_constituents |-> count]

\* ---- calculate_eod_index
\* DataFetcher.fetch_current_prices: yf.download(period="2d"), the close of the
\* last row per ticker; 0 when the provider has no usable row for the ticker.
FetchCurrentPrices(tk, avail) ==
    [t \in TickerUniverse |->
        IF t \in tk /\ t \in avail
        THEN LET rows == WorldRows(t, today - 1, today)
             IN  IF rows # <<>> THEN rows[Len(rows)][2] ELSE 0
        ELSE 0]

Priced(tk, q) == {t \in tk : q[t] # 0}

\* Variant: the calculation goes on without any usable price.
EodNeverAborts(tk, q) == FALSE

\* "if not prices" / "if not constituent_data": nothing to calculate from.
EodAborts(tk, q) == Priced(tk, q) = {}

\* The divisor the calculation uses: initialised when unset or zero.
EodDivisor(div, total_ff_mcap) ==
    IF IsNone(div) \/ RIsZero(div)
    THEN IF RPos(total_ff_mcap) THEN RDiv(total_ff_mcap, R(BaseValue)) ELSE R(1)
    ELSE div

PreviousCloseBeforeToday(history) ==
    LET before == {i \in 1 .. Len(history) : history[i].date < today}
    IN  IF before # {} THEN history[MaxOf(before)].close ELSE R(BaseValue)

\* prev_value: the close of the last ledger entry, else the base value.
PreviousClose(history) ==
    IF history # <<>> THEN history[Len(history)].close ELSE R(BaseValue)

Weight(ff_mcap, total_ff_mcap) ==
    IF RPos(total_ff_mcap)
    THEN Round(RMul(RDiv(ff_mcap, total_ff_mcap), R(100)), 4)
    ELSE R(0)

\* Variant: the entry is appended even when one dated like it exists.
RecordEntryAppendOnly(history, e) == Append(history, e)

RecordEntryReplaceLast(history, e) ==
    IF history # <<>> THEN [history EXCEPT ![Len(history)] = e] ELSE <<e>>

\* Overwrite the entry dated like e (the last such), else append.
RecordEntry(history, e) ==
    LET existing_today == {i \in 1 .. Len(history) : history[i].date = e.date}
    IN  IF existing_today # {}
        THEN [history EXCEPT ![MaxOf(existing_today)] = e]
        ELSE Append(history, e)

MakeSnapshot(e, info, q, inc, total_ff_mcap, total_mcap) ==
    [ready |-> TRUE,
     index |-> [value |-> e.value, change |-> e.change,
                change_percent |-> e.change_percent,
                high |-> e.high, low |-> e.low, open |-> e.open,
                previous_close |-> e.previous_close,
                total_market_cap |-> Round(total_mcap, 0),
                total_free_float_market_cap |-> Round(total_ff_mcap, 0)],
     constituents |-> [t \in inc |->
                [price |-> q[t],
                 market_cap |-> MarketCap(info, t, q[t]),
                 free_float_market_cap |-> FFMarketCap(info, t, q[t]),
                 weight |-> Weight(FFMarketCap(info, t, q[t]), total_ff_mcap)]]]

\* The engine and the stores after calculate_eod_index, and what it returns.
\* fresh: the call produced a new calculation result.
CalculateEodIndex(q, dbUp, jsonOk) ==
    IF EodAborts(tickers, q)
    THEN [fresh |-> FALSE, returned |-> last_snapshot,
          divisor |-> divisor, last_ff_mcap_sum |-> last_ff_mcap_sum,
          index_history |-> index_history, last_snapshot |-> last_snapshot,
          db_history |-> db_history, db_state |-> db_state,
          json_history |-> json_history]
    ELSE
    LET inc == Priced(tickers, q)
        total_ff_mcap == SumOver(inc, [t \in inc |-> FFMarketCap(stocks_info, t, q[t])])
        total_mcap == SumOver(inc, [t \in inc |-> MarketCap(stocks_info, t, q[t])])
        div == EodDivisor(divisor, total_ff_mcap)
        index_value == RDiv(total_ff_mcap, div)
        prev_value == PreviousClose(index_history)
        entry == MakeEntry(today, index_value, prev_value, total_ff_mcap, total_mcap,
                           div, Cardinality(inc))
        history == RecordEntry(index_history, entry)
        snapshot == MakeSnapshot(entry, stocks_info, q, inc, total_ff_mcap, total_mcap)
    IN  [fresh |-> TRUE, returned |-> snapshot,
         divisor |-> div, last_ff_mcap_sum |-> total_ff_mcap,
         index_history |-> history, last_snapshot |-> snapshot,
         db_history |-> IF has_db /\ dbUp
                        THEN UpsertDoc(SaveHistoryDb(history, dbUp), entry)
                        ELSE db_history,
         db_state |-> SaveEngineState(div, total_ff_mcap, tickers, history, dbUp),
         json_history |-> SaveHistoryJson(history, jsonOk)]

ApplyEod(r) ==
    /\ divisor' = r.divisor
    /\ last_ff_mcap_sum' = r.last_ff_mcap_sum
    /\ index_history' = r.index_history
    /\ last_snapshot' = r.last_snapshot
    /\ db_history' = r.db_history
    /\ db_state' = r.db_state
    /\ json_history' = r.json_history

AdjustedDivisorUnguarded(div, old_ff_mcap_sum, new_ff_mcap_sum) ==
    IF IsNone(div) THEN div
    ELSE IF RIsZero(old_ff_mcap_sum) THEN None
    ELSE RMul(div, RDiv(new_ff_mcap_sum, old_ff_mcap_sum))

AdjustedDivisorInverse(div, old_ff_mcap_sum, new_ff_mcap_sum) ==
    IF IsNone(div) \/ RIsZero(old_ff_mcap_sum) \/ RIsZero(new_ff_mcap_sum) THEN div
    ELSE RMul(div, RDiv(old_ff_mcap_sum, new_ff_mcap_sum))

\* adjust_divisor_for_constituent_change: the divisor afterwards.
AdjustedDivisor(div, old_ff_mcap_sum, new_ff_mcap_sum) ==
    IF IsNone(div) \/ RIsZero(old_ff_mcap_sum) THEN div
    ELSE RMul(div, RDiv(new_ff_mcap_sum, old_ff_mcap_sum))

\* ---- build_historical_index
\* Ascending sequence of the members of a set of day numbers.
RECURSIVE SortedSeq(_)
SortedSeq(S) ==
    IF S = {} THEN <<>>
    ELSE LET m == MaxOf(S) IN Append(SortedSeq(S \ {m}), m)

ContributingOnDate(tk, frames, dt) ==
    {t \in tk : frames[t].has /\ dt \in RowDates(frames[t].df)}

\* Tickers that contribute a price on date dt: a bar on dt, else the most
\* recent bar before dt.
Contributing(tk, frames, dt) ==
    {t \in tk : frames[t].has /\ CloseOnOrBefore(frames[t].df, dt) # 0}

\* The loop over the dates to calculate: the entries it builds, and the
\* divisor it leaves in self.divisor.
RECURSIVE BackfillLoop(_, _, _, _, _, _, _)
BackfillLoop(dates, tk, info, frames, div, self_div, prev_value) ==
    IF dates = <<>> THEN [entries |-> <<>>, divisor |-> self_div]
    ELSE
    LET dt == Head(dates)
        inc == Contributing(tk, frames, dt)
        price == [t \in inc |-> CloseOnOrBefore(frames[t].df, dt)]
        total_ff_mcap == SumOver(inc, [t \in inc |-> FFMarketCap(info, t, price[t])])
        total_mcap == SumOver(inc, [t \in inc |-> MarketCap(info, t, price[t])])
        d == IF IsNone(div) THEN RDiv(total_ff_mcap, R(BaseValue)) ELSE div
        sd == IF IsNone(div) THEN d ELSE self_div
        index_val == RDiv(total_ff_mcap, d)
        entry == MakeEntry(dt, index_val, prev_value, total_ff_mcap, total_mcap, d,
                           Cardinality(inc))
    IN  IF inc = {}
        THEN BackfillLoop(Tail(dates), tk, info, frames, div, self_div, prev_value)
        ELSE LET rest == BackfillLoop(Tail(dates), tk, info, frames, d, sd, index_val)
             IN  [entries |-> <<entry>> \o rest.entries, divisor |-> rest.divisor]

DatesToCalculateAll(all_dates, history) == all_dates

\* Dates that still need an entry.
DatesToCalculate(all_dates, history) ==
    SelectSeq(all_dates, LAMBDA d : d \notin HistoryDates(history))

\* build_historical_index after the fetch.  saved: the call went on to write
\* the ledger and the engine state.
BuildHistoricalIndex(frames) ==
    LET fetched == {t \in TickerUniverse : frames[t].has}
        all_dates == SortedSeq({d \in UNION {RowDates(frames[t].df) : t \in fetched} :
                                d >= BaseDate})
        dates_to_calculate == DatesToCalculate(all_dates, index_history)
        start_div == IF index_history # <<>>
                     THEN index_history[Len(index_history)].divisor ELSE divisor
        loop == BackfillLoop(IF index_history # <<>> THEN dates_to_calculate ELSE all_dates,
                             tickers, stocks_info, frames, start_div, divisor,
                             PreviousClose(index_history))
    IN  IF fetched = {} \/ all_dates = <<>>
           \/ (dates_to_calculate = <<>> /\ index_history # <<>>)
        THEN [saved |-> FALSE, divisor |-> divisor, index_history |-> index_history]
        ELSE [saved |-> TRUE, divisor |-> loop.divisor,
              index_history |-> IF loop.entries # <<>>
                                THEN SortEntries(index_history \o loop.entries)
                                ELSE index_history]

\* ---- initialize
\* _load_engine_state then _load_history: the divisor, the free-float sum and
\* the ledger after both.
LoadState(dbUp) ==
    LET state == IF has_db /\ dbUp THEN db_state ELSE <<>>
        div0 == IF state # <<>> THEN state[1].divisor ELSE None
        ff0 == IF state # <<>> THEN state[1].last_ff_mcap_sum ELSE None
        fromDb == IF has_db /\ dbUp THEN db_history ELSE <<>>
        history == IF fromDb # <<>> THEN fromDb ELSE json_history
    IN  [index_history |-> history,
         divisor |-> IF history # <<>> THEN history[Len(history)].divisor ELSE div0,
         last_ff_mcap_sum |-> IF history # <<>> THEN history[Len(history)].ff_mcap_sum
                              ELSE ff0]

\* ------------------------------------------------------- DailyEODScheduler
IsWeekdayMonToThu(d) == (d + 2) % 7 < 4

\* DailyEODScheduler._is_weekday; day 0 is a Wednesday.
IsWeekday(d) == (d + 2) % 7 < 5

SlotHour(s) == IF s = 0 THEN CALCULATION_HOUR - 1 ELSE CALCULATION_HOUR
SlotMinute(s) == IF s = 0 THEN 59 ELSE CALCULATION_MINUTE + (s - 1)

\* Variant: the window test with a grace of two minutes.
IsCalculationTimeLateWindow(d, s, last) ==
    /\ IsWeekday(d)
    /\ SlotHour(s) = CALCULATION_HOUR
    /\ SlotMinute(s) <= CALCULATION_MINUTE + 2
    /\ d # last

\* Variant: the window test without the last-calculation-date comparison.
IsCalculationTimeAnyDate(d, s, last) ==
    /\ IsWeekday(d)
    /\ SlotHour(s) = CALCULATION_HOUR
    /\ SlotMinute(s) <= CALCULATION_MINUTE + 1

\* DailyEODScheduler._is_calculation_time
IsCalculationTime(d, s, last) ==
    /\ IsWeekday(d)
    /\ SlotHour(s) = CALCULATION_HOUR
    /\ SlotMinute(s) <= CALCULATION_MINUTE + 1
    /\ d # last

\* Variant: start() recovers nothing from the ledger.
RecoveredCalcDateNone(history, last) == last

\* DailyEODScheduler.start: the last calculation date recovered from history.
RecoveredCalcDate(history, last) ==
    IF history # <<>> THEN history[Len(history)].date ELSE last

\* DailyEODScheduler._build_broadcast_payload
BuildBroadcastPayload(snapshot, date) ==
    [type |-> "eod_update", date |-> date, index |-> snapshot.index,
     constituents |-> snapshot.constituents]

\* ------------------------------------------------------------------- main
GetSnapshotEmpty(endpoint, snapshot) ==
    IF endpoint = "index"
    THEN [status |-> 200, index |-> IF snapshot.ready THEN snapshot.index ELSE <<>>]
    ELSE [status |-> 200,
          constituents |-> IF snapshot.ready THEN snapshot.constituents ELSE <<>>,
          total |-> IF snapshot.ready THEN Cardinality(DOMAIN snapshot.constituents)
                    ELSE 0]

\* get_index and get_constituents: 503 while the engine has no snapshot, else
\* the snapshot's index or its constituents.
GetSnapshot(endpoint, snapshot) ==
    IF ~snapshot.ready THEN [status |-> 503]
    ELSE IF endpoint = "index"
    THEN [status |-> 200, index |-> snapshot.index]
    ELSE [status |-> 200, constituents |-> snapshot.constituents,
          total |-> Cardinality(DOMAIN snapshot.constituents)]

\* ---------------------------------------------------------------- the tasks
\* The callers of save_stock_prices: the application's sync and the seed
\* script.  No call is in progress.
Savers == {"sync", "seed"}
NoSavers == [p \in Savers |-> [at |-> "idle"]]

\* Before start() there is no loop task; a started one sleeps between polls.
NoLoop == [at |-> "none"]
Sleeping == [at |-> "sleep"]

\* -------------------------------------------------------- ConnectionManager
\* No broadcast() call is in progress.
NoBroadcast == [on |-> FALSE]

Members(list) == {list[k] : k \in 1 .. Len(list)}

\* list.remove(c): the first occurrence goes.
RemoveFirst(list, c) ==
    LET at == {k \in 1 .. Len(list) : list[k] = c}
    IN  IF at = {} THEN list
        ELSE LET k == CHOOSE x \in at : \A y \in at : x <= y
             IN  SubSeq(list, 1, k - 1) \o SubSeq(list, k + 1, Len(list))

\* ConnectionManager.disconnect
DisconnectFrom(list, c) == IF c \in Members(list) THEN RemoveFirst(list, c) ELSE list

RECURSIVE DisconnectAll(_, _)
DisconnectAll(list, gone) ==
    IF gone = <<>> THEN list
    ELSE DisconnectAll(DisconnectFrom(list, Head(gone)), Tail(gone))

AfterFailedSendForgotten(disconnected, c) == disconnected

\* except Exception: disconnected.append(connection)
AfterFailedSend(disconnected, c) == Append(disconnected, c)

\* One iteration of "for connection in self.active_connections": the list
\* iterator yields the element at its index and moves on, and the send to it
\* succeeds or raises.  b is the broadcast in progress.
SendStep(b, list, ok) ==
    LET c == list[b.i + 1]
    IN  [b EXCEPT !.i = b.i + 1,
                  !.got = [b.got EXCEPT ![c] = IF ok THEN @ + 1 ELSE @],
                  !.failed = IF ok THEN @ ELSE @ \cup {c},
                  !.disconnected = IF ok THEN @ ELSE AfterFailedSend(@, c)]

\* ------------------------------------------------------------ observations
\* obs records what the last step did, and facts about the run so far:
\* fired_today, a trigger-invoked calculation produced a new result today;
\* fired_run, it did so in the process that is running now;
\* invoked_today, the trigger invoked the calculator today;
\* whole_window, the scheduler has been running since before today's window;
\* reload_value, the index value of the last calculation before a
\* reload_config that changed the constituent set and has not been followed by
\* a calculation yet; before_reload, that value when this step was that
\* calculation; calculated, the snapshot of the last calculation that produced
\* a new result in the running process; armed, the loop was running and the
\* last-fired date was not today when today's window began; adjusted, the
\* divisor was adjusted in the running process; at_stop, the divisor the
\* process before this one stopped with, when it had adjusted it; aux, inputs
\* of the step.
Obs(op, priced, invoked, fresh, returned, published, old) ==
    [op |-> op, priced |-> priced, invoked |-> invoked, fresh |-> fresh,
     returned |-> returned, published |-> published,
     fired_today |-> IF op = "tick" /\ invoked /\ fresh THEN TRUE
                     ELSE IF op = "newday" THEN FALSE ELSE old.fired_today,
     fired_run |-> IF op = "tick" /\ invoked /\ fresh THEN TRUE
                   ELSE IF op \in {"newday", "restart"} THEN FALSE ELSE old.fired_run,
     invoked_today |-> IF op = "tick" /\ invoked THEN TRUE
                       ELSE IF op = "newday" THEN FALSE ELSE old.invoked_today,
     whole_window |-> IF op = "start" THEN slot = 0
                      ELSE IF op = "newday" THEN pc = "live" /\ running
                      ELSE IF op = "restart" THEN FALSE ELSE old.whole_window,
     reload_value |-> IF op = "restart" \/ fresh THEN <<>>
                      ELSE IF op = "reload" /\ last_snapshot.ready /\ old.reload_value = <<>>
                      THEN <<last_snapshot.index.value>>
                      ELSE old.reload_value,
     before_reload |-> IF fresh THEN old.reload_value ELSE <<>>,
     calculated |-> IF fresh THEN <<returned>>
                    ELSE IF op = "restart" THEN <<>> ELSE old.calculated,
     armed |-> IF op = "clock" /\ slot = 0
               THEN pc = "live" /\ running /\ last_calc_date # today
               ELSE IF op \in {"newday", "restart"} THEN FALSE ELSE old.armed,
     adjusted |-> IF op = "adjust" THEN TRUE
                  ELSE IF op = "restart" THEN FALSE ELSE old.adjusted,
     at_stop |-> IF op = "restart"
                 THEN (IF old.adjusted THEN <<divisor>> ELSE <<>>)
                 ELSE old.at_stop,
     aux |-> <<>>]

\* Dates of the entries of the in-memory ledger that the database's ledger
\* does not hold as they are.
Unsaved ==
    IF has_db
    THEN {index_history[i].date : i \in {k \in 1 .. Len(index_history) :
              \A j \in 1 .. Len(db_history) : db_history[j] # index_history[k]}}
    ELSE {}

Quiet(op) == Obs(op, {}, FALSE, FALSE, NoSnapshot, FALSE, obs)

\* Nothing has been done yet.
NoObs ==
    [op |-> "init", priced |-> {}, invoked |-> FALSE, fresh |-> FALSE,
     returned |-> NoSnapshot, published |-> FALSE,
     fired_today |-> FALSE, fired_run |-> FALSE, invoked_today |-> FALSE,
     whole_window |-> FALSE, reload_value |-> <<>>, before_reload |-> <<>>,
     calculated |-> <<>>, armed |-> FALSE, adjusted |-> FALSE, at_stop |-> <<>>,
     aux |-> <<>>]

\* ----------------------------------------------------------------- actions
\* What the collaborators can do during one call.
DbUps == {u \in BOOLEAN : u \/ (has_db /\ "db" \in faults)}
JsonOks == {b \in BOOLEAN : b \/ "json" \in faults}
Avails(tk) ==
    {a \in SUBSET tk : \/ a = tk
                       \/ (a = {} /\ "provider" \in faults)
                       \/ "ticker" \in faults}
Knowns(tk) == {k \in SUBSET tk : k = tk \/ "info" \in faults}
Boundaries == {b \in BOOLEAN : has_db \/ ~b}

\* The process stops (stop(), or a crash) and a new one is constructed:
\* IndexEngine.__init__, DailyEODScheduler.__init__.
Restart ==
    /\ UNCHANGED savers
    /\ pc = "live"
    /\ pc' = "constructed"
    /\ tickers' = cfg_file
    /\ stocks_info' = [t \in TickerUniverse |-> 0]
    /\ divisor' = None
    /\ last_ff_mcap_sum' = None
    /\ index_history' = <<>>
    /\ last_snapshot' = NoSnapshot
    /\ running' = FALSE
    /\ last_calc_date' = 0
    /\ ticked' = FALSE
    /\ last_payload' = <<>>
    /\ active_connections' = <<>>
    /\ bcast' = NoBroadcast
    /\ task' = NoLoop
    /\ engine_ops' = <<>>
    /\ obs' = Quiet("restart")
    /\ UNCHANGED <<envVars, storeVars>>

NeedsBaseDivisorAlways(div) == TRUE

\* initialize: "if self.divisor is None: await self._calculate_base_divisor()".
NeedsBaseDivisor(div) == IsNone(div)

\* IndexEngine.initialize.  aux records whether the store answered and whether
\* _calculate_base_divisor ran.
InitializeBody ==
    /\ \E dbUp \in DbUps,
          known \in Knowns(tickers),
          avail \in Avails(tickers),
          boundary \in Boundaries :
        LET loaded == LoadState(dbUp)
            info == [t \in TickerUniverse |-> IF t \in known THEN ProviderShares(t) ELSE 0]
            h == Historical(tickers, avail, boundary, dbUp)
            sum == BaseFFMcapSum(tickers, info, h.frames)
        IN  /\ stocks_info' = info
            /\ index_history' = loaded.index_history
            /\ obs' = [Quiet("initialize") EXCEPT
                         !.aux = <<dbUp, NeedsBaseDivisor(loaded.divisor)>>]
            /\ IF NeedsBaseDivisor(loaded.divisor)
               THEN /\ divisor' = BaseDivisor(sum)
                    /\ last_ff_mcap_sum' = sum
                    /\ stock_prices' = h.stored
                    /\ db_state' = SaveEngineState(BaseDivisor(sum), sum, tickers,
                                                   loaded.index_history, dbUp)
               ELSE /\ divisor' = loaded.divisor
                    /\ last_ff_mcap_sum' = loaded.last_ff_mcap_sum
                    /\ UNCHANGED <<stock_prices, db_state>>
    /\ UNCHANGED <<wsVars, envVars, db_history, json_history, tickers, last_snapshot, schedVars>>

Initialize ==
    /\ pc = "constructed"
    /\ pc' = "initialized"
    /\ InitializeBody
    /\ UNCHANGED taskVars

\* IndexEngine.build_historical_index, called by lifespan.  aux records the
\* ledger and the divisor the call found, the frames it was given, whether it
\* wrote to a database that answered, the dates the database lacked, the
\* tickers the provider answered for, whether the step before was a backfill
\* too, and whether the database answered.
BuildHistoricalBody ==
    /\ IF index_history # <<>> /\ index_history[Len(index_history)].date >= today
       THEN /\ UNCHANGED <<storeVars, divisor, index_history>>
            /\ obs' = [Quiet("backfill") EXCEPT !.aux = <<index_history, divisor, <<>>, FALSE, Unsaved, {},
                                  obs.op = "backfill", TRUE>>]
       ELSE \E dbUp \in DbUps,
               jsonOk \in JsonOks,
               avail \in Avails(tickers),
               boundary \in Boundaries :
            \E h \in {Historical(tickers, avail, boundary, dbUp)} :
            \E r \in {BuildHistoricalIndex(h.frames)} :
                /\ stock_prices' = h.stored
                /\ divisor' = r.divisor
                /\ index_history' = r.index_history
                /\ IF r.saved
                   THEN /\ db_history' = SaveHistoryDb(r.index_history, dbUp)
                        /\ json_history' = SaveHistoryJson(r.index_history, jsonOk)
                        /\ db_state' = SaveEngineState(r.divisor, last_ff_mcap_sum, tickers,
                                                       r.index_history, dbUp)
                   ELSE UNCHANGED <<db_history, json_history, db_state>>
                /\ obs' = [Quiet("backfill") EXCEPT
                             !.aux = <<index_history, divisor, h.frames,
                                       r.saved /\ dbUp, Unsaved, avail,
                                       obs.op = "backfill", dbUp>>]
    /\ UNCHANGED <<wsVars, envVars, tickers, stocks_info, last_ff_mcap_sum, last_snapshot, schedVars>>

BuildHistorical ==
    /\ pc = "initialized"
    /\ pc' = "backfilled"
    /\ BuildHistoricalBody
    /\ UNCHANGED taskVars

\* IndexEngine.build_historical_index called on an engine that was
\* constructed and not initialized: its divisor is unset.
BuildHistoricalBeforeInitialize ==
    /\ pc = "constructed"
    /\ obs.op # "backfill"
    /\ BuildHistoricalBody
    /\ UNCHANGED <<pc, taskVars>>

\* IndexEngine.build_historical_index called a second time, right after the
\* first.
BuildHistoricalAgain ==
    /\ pc = "backfilled"
    /\ obs.op = "backfill"
    /\ ~obs.aux[7]
    /\ BuildHistoricalBody
    /\ UNCHANGED <<pc, taskVars>>

\* IndexEngine.calculate_eod_index, called by lifespan
StartupEodBody ==
    /\ \E avail \in Avails(tickers),
          dbUp \in DbUps,
          jsonOk \in JsonOks :
        LET q == FetchCurrentPrices(tickers, avail)
            r == CalculateEodIndex(q, dbUp, jsonOk)
        IN  /\ ApplyEod(r)
            /\ obs' = [Obs("eod", Priced(tickers, q), FALSE, r.fresh, r.returned, FALSE, obs)
                         EXCEPT !.aux = <<dbUp, Unsaved>>]
    /\ UNCHANGED <<wsVars, envVars, stock_prices, tickers, stocks_info, schedVars>>

StartupEod ==
    /\ pc = "backfilled"
    /\ pc' = "ready"
    /\ StartupEodBody
    /\ UNCHANGED taskVars

LifespanStartsSchedulerEarly(p) == p \in {"calculating", "ready"}

\* lifespan starts the scheduler once the three startup operations returned.
LifespanStartsScheduler(p) == p = "ready"

\* DailyEODScheduler.start
SchedulerStart ==
    /\ UNCHANGED savers
    /\ LifespanStartsScheduler(pc)
    /\ pc' = "live"
    /\ running' = TRUE
    /\ last_calc_date' = RecoveredCalcDate(index_history, last_calc_date)
    /\ task' = Sleeping
    /\ obs' = Quiet("start")
    /\ UNCHANGED <<engine_ops, wsVars, envVars, storeVars, engineVars, ticked, last_payload>>

\* One iteration of DailyEODScheduler._run_loop
Tick ==
    /\ pc = "live"
    /\ running
    /\ task.at = "sleep"
    /\ ~ticked
    /\ ticked' = TRUE
    /\ IF IsCalculationTime(today, slot, last_calc_date)
       THEN \E avail \in Avails(tickers),
               dbUp \in DbUps,
               jsonOk \in JsonOks :
            LET q == FetchCurrentPrices(tickers, avail)
                r == CalculateEodIndex(q, dbUp, jsonOk)
            IN  /\ ApplyEod(r)
                /\ IF r.returned.ready
                   THEN /\ last_calc_date' = today
                        /\ last_payload' = <<BuildBroadcastPayload(r.returned, today)>>
                   ELSE UNCHANGED <<last_calc_date, last_payload>>
                /\ obs' = [Obs("tick", Priced(tickers, q), TRUE, r.fresh, r.returned,
                                  r.returned.ready, obs)
                             EXCEPT !.aux = <<dbUp, Unsaved>>]
       ELSE /\ obs' = Quiet("tick")
            /\ UNCHANGED <<db_history, db_state, json_history, divisor, last_ff_mcap_sum,
                           index_history, last_snapshot, last_calc_date, last_payload>>
    /\ UNCHANGED <<taskVars, wsVars, envVars, stock_prices, pc, tickers, stocks_info, running>>

\* A minute passes (CHECK_INTERVAL seconds): a running loop polls in every one.
AdvanceClock ==
    /\ pc \in {"constructed", "live"}
    /\ (pc = "live" /\ running) => ticked /\ task.at = "sleep"
    /\ \/ slot < 3 /\ slot' = slot + 1 /\ today' = today /\ obs' = Quiet("clock")
       \/ slot = 3 /\ today < MaxDay /\ slot' = 0 /\ today' = today + 1
          /\ obs' = Quiet("newday")
    /\ ticked' = FALSE
    /\ UNCHANGED <<taskVars, wsVars, provider, cfg_file, has_db, faults, storeVars, pc, engineVars, running,
                   last_calc_date, last_payload>>

\* GET /api/index and GET /api/constituents are served once lifespan's startup
\* is over.  aux records the endpoint and the response.
SnapshotQuery ==
    /\ pc = "live"
    /\ \E endpoint \in {"index", "constituents"} :
         obs' = [Quiet("query") EXCEPT
                    !.aux = <<endpoint, GetSnapshot(endpoint, last_snapshot)>>]
    /\ UNCHANGED <<taskVars, wsVars, envVars, storeVars, pc, engineVars, schedVars>>

\* constituents.json is edited; one edit is outstanding at a time.
EditConfig ==
    /\ tickers = cfg_file
    /\ \E c \in (SUBSET TickerUniverse) \ {{}, cfg_file} : cfg_file' = c
    /\ obs' = Quiet("edit")
    /\ UNCHANGED <<taskVars, wsVars, today, slot, provider, has_db, faults, storeVars, pc, engineVars, schedVars>>

\* IndexEngine.reload_config
ReloadConfig ==
    /\ pc \in {"ready", "live"}
    /\ tickers # cfg_file
    /\ tickers' = cfg_file
    /\ obs' = Quiet("reload")
    /\ UNCHANGED <<taskVars, wsVars, envVars, storeVars, pc, stocks_info, divisor, last_ff_mcap_sum,
                   index_history, last_snapshot, schedVars>>

\* ---- ConnectionManager: connect, disconnect, and broadcast, which is
\* suspended at each send
MaxClients == 3
Clients == 1 .. MaxClients

\* websocket_endpoint: a client connects.
Connect ==
    /\ \E c \in Clients \ Members(active_connections) :
         /\ active_connections' = Append(active_connections, c)
         /\ obs' = Quiet("connect")
    /\ bcast' = IF bcast.on THEN [bcast EXCEPT !.calm = FALSE] ELSE bcast
    /\ UNCHANGED <<taskVars, envVars, storeVars, pc, engineVars, schedVars>>

\* websocket_endpoint: a client's connection ends.
Disconnect ==
    /\ \E c \in Members(active_connections) :
         /\ active_connections' = DisconnectFrom(active_connections, c)
         /\ bcast' = IF bcast.on
                     THEN [bcast EXCEPT !.calm = FALSE, !.stayed = @ \ {c}]
                     ELSE bcast
         /\ obs' = Quiet("disconnect")
    /\ UNCHANGED <<taskVars, envVars, storeVars, pc, engineVars, schedVars>>

\* A broadcast() call that has sent nothing yet.
NewBroadcast(list) ==
    [on |-> TRUE, i |-> 0, disconnected |-> <<>>,
     got |-> [c \in Clients |-> 0], failed |-> {},
     start |-> Members(list), stayed |-> Members(list), calm |-> TRUE]

\* broadcast() is called and runs up to its first send.
BroadcastBegin ==
    /\ ~bcast.on
    /\ active_connections # <<>>
    /\ \E ok \in BOOLEAN :
         bcast' = SendStep(NewBroadcast(active_connections), active_connections, ok)
    /\ obs' = Quiet("broadcast")
    /\ UNCHANGED <<taskVars, envVars, storeVars, pc, engineVars, schedVars, active_connections>>

\* The send returns and the loop goes on to the next connection.
BroadcastSend ==
    /\ bcast.on
    /\ bcast.i < Len(active_connections)
    /\ \E ok \in BOOLEAN : bcast' = SendStep(bcast, active_connections, ok)
    /\ obs' = Quiet("send")
    /\ UNCHANGED <<taskVars, envVars, storeVars, pc, engineVars, schedVars, active_connections>>

\* The loop is over: the connections whose send failed are disconnected.
\* aux records the broadcast.
BroadcastEnd ==
    /\ UNCHANGED savers
    /\ bcast.on
    /\ bcast.i >= Len(active_connections)
    /\ active_connections' = DisconnectAll(active_connections, bcast.disconnected)
    /\ bcast' = NoBroadcast
    /\ task' = IF task.at = "broadcast" THEN Sleeping ELSE task
    /\ obs' = [Quiet("broadcast_end") EXCEPT !.aux = <<bcast>>]
    /\ UNCHANGED <<engine_ops, envVars, storeVars, pc, engineVars, schedVars>>

\* ---- the same operations at the grain of the event loop: lifespan awaits
\* initialize, build_historical_index and calculate_eod_index one after the
\* other, and the loop task is suspended in the store writes of a calculation
\* and in the sends of a broadcast
StartupOps == [constructed |-> "initializing", initialized |-> "backfilling",
               backfilled |-> "calculating"]

\* lifespan calls the next engine operation, which runs up to its first await.
StartupBegin ==
    /\ UNCHANGED savers
    /\ pc \in DOMAIN StartupOps
    /\ pc' = StartupOps[pc]
    /\ engine_ops' = Append(engine_ops, StartupOps[pc])
    /\ obs' = Quiet("begin")
    /\ UNCHANGED <<task, wsVars, envVars, storeVars, engineVars, schedVars>>

Returned(ops, op) == SelectSeq(ops, LAMBDA o : o # op)

InitializeEnd ==
    /\ UNCHANGED savers
    /\ pc = "initializing"
    /\ pc' = "initialized"
    /\ InitializeBody
    /\ engine_ops' = Returned(engine_ops, "initializing")
    /\ UNCHANGED task

BuildHistoricalEnd ==
    /\ UNCHANGED savers
    /\ pc = "backfilling"
    /\ pc' = "backfilled"
    /\ BuildHistoricalBody
    /\ engine_ops' = Returned(engine_ops, "backfilling")
    /\ UNCHANGED task

StartupEodEnd ==
    /\ UNCHANGED savers
    /\ pc = "calculating"
    /\ pc' = "ready"
    /\ StartupEodBody
    /\ engine_ops' = Returned(engine_ops, "calculating")
    /\ UNCHANGED task

\* The server takes WebSocket connections once lifespan's startup is over and
\* until shutdown.
ConnectLive ==
    /\ pc = "live"
    /\ Connect

AfterCalculationSilent(snapshot) ==
    /\ task' = Sleeping
    /\ UNCHANGED <<last_calc_date, last_payload, bcast>>

\* _run_loop after calculate_eod_index has returned: the fired date is
\* recorded and broadcast() runs up to its first send, or the loop sleeps.
AfterCalculation(snapshot) ==
    IF snapshot.ready
    THEN /\ last_calc_date' = today
         /\ last_payload' = <<BuildBroadcastPayload(snapshot, today)>>
         /\ IF active_connections = <<>>
            THEN task' = Sleeping /\ bcast' = bcast
            ELSE /\ task' = [at |-> "broadcast"]
                 /\ \E ok \in BOOLEAN :
                      bcast' = SendStep(NewBroadcast(active_connections),
                                        active_connections, ok)
    ELSE /\ task' = Sleeping
         /\ UNCHANGED <<last_calc_date, last_payload, bcast>>

\* The loop wakes up and polls; a calculation runs up to its first store
\* write, with the engine's memory already updated.
LoopPoll ==
    /\ UNCHANGED savers
    /\ pc = "live"
    /\ running
    /\ task.at = "sleep"
    /\ ~ticked
    /\ ticked' = TRUE
    /\ IF IsCalculationTime(today, slot, last_calc_date)
       THEN \E avail \in Avails(tickers),
               dbUp \in DbUps,
               jsonOk \in JsonOks :
            LET q == FetchCurrentPrices(tickers, avail)
                r == CalculateEodIndex(q, dbUp, jsonOk)
            IN  /\ divisor' = r.divisor
                /\ last_ff_mcap_sum' = r.last_ff_mcap_sum
                /\ index_history' = r.index_history
                /\ last_snapshot' = r.last_snapshot
                /\ obs' = Obs("tick", Priced(tickers, q), TRUE, r.fresh, r.returned,
                              FALSE, obs)
                /\ IF r.fresh /\ has_db
                   THEN /\ task' = [at |-> "persist", k |-> 1, r |-> r,
                                     up |-> <<dbUp, jsonOk>>]
                        /\ engine_ops' = Append(engine_ops, "trigger")
                        /\ UNCHANGED <<db_history, db_state, json_history,
                                       last_calc_date, last_payload, bcast>>
                   ELSE /\ json_history' = r.json_history
                        /\ AfterCalculation(r.returned)
                        /\ UNCHANGED <<db_history, db_state, engine_ops>>
       ELSE /\ obs' = Quiet("tick")
            /\ UNCHANGED <<db_history, db_state, json_history, divisor, last_ff_mcap_sum,
                           index_history, last_snapshot, last_calc_date, last_payload,
                           taskVars, bcast>>
    /\ UNCHANGED <<active_connections, envVars, stock_prices, pc, tickers, stocks_info,
                   running>>

\* The k-th store write of the calculation in progress: the bulk save of the
\* ledger, the engine state, the ledger entry.  up: whether the database and
\* the ledger file take writes during this calculation.
PersistWrite(k, r) ==
    /\ db_history' = IF k \in {1, 3} THEN r.db_history ELSE db_history
    /\ db_state' = IF k = 2 THEN r.db_state ELSE db_state

\* A store write returns: the calculation goes on to its next write (the
\* ledger file is written on the way to the second), or returns to the loop.
LoopPersist ==
    /\ UNCHANGED savers
    /\ task.at = "persist"
    /\ PersistWrite(task.k, task.r)
    /\ json_history' = IF task.k = 1 THEN task.r.json_history ELSE json_history
    /\ IF task.k < 3
       THEN /\ task' = [task EXCEPT !.k = @ + 1]
            /\ UNCHANGED <<engine_ops, last_calc_date, last_payload, bcast>>
       ELSE /\ engine_ops' = Returned(engine_ops, "trigger")
            /\ AfterCalculation(task.r.returned)
    /\ obs' = [Quiet("persist") EXCEPT !.aux = <<task.k, task.up, task.r.returned>>]
    /\ UNCHANGED <<active_connections, envVars, stock_prices, pc, engineVars, running,
                   ticked>>

\* DailyEODScheduler.stop: the flag is cleared and the loop task is cancelled,
\* which raises CancelledError at the await it is suspended in; the write it
\* was waiting for has reached the store or has not.  aux records where the
\* task was, and the broadcast it was in.
Stop ==
    /\ UNCHANGED savers
    /\ pc = "live"
    /\ running
    /\ pc' = "stopped"
    /\ running' = FALSE
    /\ task' = [at |-> "done"]
    /\ engine_ops' = Returned(engine_ops, "trigger")
    /\ bcast' = NoBroadcast
    /\ IF task.at = "persist"
       THEN \/ PersistWrite(task.k, task.r)
            \/ UNCHANGED <<db_history, db_state>>
       ELSE UNCHANGED <<db_history, db_state>>
    /\ obs' = [Quiet("stop") EXCEPT !.aux = <<task, bcast>>]
    /\ UNCHANGED <<active_connections, envVars, stock_prices, json_history, engineVars,
                   last_calc_date, ticked, last_payload>>

\* ------------------------------------------------------------------ worlds
\* A world gives each ticker the days it trades on; its close moves from day
\* to day, or stays flat.
ClosePrice(t, d, flat) ==
    IF flat THEN (IF t = "A" THEN 1 ELSE MaxPrice)
    ELSE 1 + ((d + (IF t = "A" THEN 0 ELSE 1)) % MaxPrice)

World(datesA, datesB, flat) ==
    [t \in TickerUniverse |-> [d \in Dates |->
        IF d \in (IF t = "A" THEN datesA ELSE datesB) THEN ClosePrice(t, d, flat) ELSE 0]]

FaultKinds == {"provider", "ticker", "db", "json", "info"}

InitMemory ==
    /\ pc = "constructed"
    /\ tickers = cfg_file
    /\ stocks_info = [t \in TickerUniverse |-> 0]
    /\ divisor = None
    /\ last_ff_mcap_sum = None
    /\ index_history = <<>>
    /\ last_snapshot = NoSnapshot
    /\ running = FALSE
    /\ last_calc_date = 0
    /\ ticked = FALSE
    /\ last_payload = <<>>
    /\ active_connections = <<>>
    /\ bcast = NoBroadcast
    /\ task = NoLoop
    /\ savers = NoSavers
    /\ engine_ops = <<>>
    /\ obs = NoObs

InitStores ==
    /\ stock_prices = [t \in TickerUniverse |-> <<>>]
    /\ db_history = <<>>
    /\ db_state = <<>>
    /\ json_history = <<>>

Init ==
    /\ today = BaseDate
    /\ slot = 0
    /\ provider \in {World(Dates, Dates, FALSE), World(Dates, Dates \ {0, 1}, FALSE)}
    /\ cfg_file = TickerUniverse
    /\ has_db = FALSE
    /\ faults \in {{}, {"provider", "json"}}
    /\ InitStores
    /\ InitMemory

Next ==
    \/ Restart
    \/ Initialize
    \/ BuildHistorical
    \/ StartupEod
    \/ SchedulerStart
    \/ Tick
    \/ AdvanceClock
    \/ SnapshotQuery

Spec == Init /\ [][Next]_vars

\* ---- the service with its constituent file edited and reloaded, in a world
\* of flat prices
InitReload ==
    /\ today = BaseDate
    /\ slot = 0
    /\ provider = World(Dates, Dates, TRUE)
    /\ cfg_file = TickerUniverse
    /\ has_db = FALSE
    /\ faults = {}
    /\ InitStores
    /\ InitMemory

NextReload ==
    \/ Initialize
    \/ BuildHistorical
    \/ StartupEod
    \/ SchedulerStart
    \/ Tick
    \/ AdvanceClock
    \/ EditConfig
    \/ ReloadConfig

SpecReload == InitReload /\ [][NextReload]_vars

\* ---- adjust_divisor_for_constituent_change called on an engine whose
\* divisor is unset or any positive ratio of small numbers
MaxSum == 3
MaxTerm == 40

Sums == {R(n) : n \in 0 .. MaxSum}
AdjustDivisors == {None} \cup {RNorm(n, d) : n \in 1 .. MaxSum, d \in 1 .. MaxSum}

AdjustDivisor ==
    /\ \E old_ff_mcap_sum \in Sums, new_ff_mcap_sum \in Sums :
         LET d == AdjustedDivisor(divisor, old_ff_mcap_sum, new_ff_mcap_sum)
         IN  /\ d[1] <= MaxTerm /\ d[2] <= MaxTerm
             /\ divisor' = d
             /\ obs' = [Quiet("adjust") EXCEPT
                          !.aux = <<divisor, old_ff_mcap_sum, new_ff_mcap_sum>>]
    /\ UNCHANGED <<taskVars, wsVars, envVars, storeVars, pc, tickers, stocks_info, last_ff_mcap_sum,
                   index_history, last_snapshot, schedVars>>

InitAdjust ==
    /\ today = BaseDate
    /\ slot = 0
    /\ provider = World(Dates, Dates, TRUE)
    /\ cfg_file = TickerUniverse
    /\ has_db = FALSE
    /\ faults = {}
    /\ InitStores
    /\ pc = "constructed"
    /\ tickers = cfg_file
    /\ stocks_info = [t \in TickerUniverse |-> 0]
    /\ divisor \in AdjustDivisors
    /\ last_ff_mcap_sum = None
    /\ index_history = <<>>
    /\ last_snapshot = NoSnapshot
    /\ running = FALSE
    /\ last_calc_date = 0
    /\ ticked = FALSE
    /\ last_payload = <<>>
    /\ active_connections = <<>>
    /\ bcast = NoBroadcast
    /\ task = NoLoop
    /\ savers = NoSavers
    /\ engine_ops = <<>>
    /\ obs = NoObs

NextAdjust == AdjustDivisor

SpecAdjust == InitAdjust /\ [][NextAdjust]_vars

\* ---- fetch_historical_incremental run again and again against a database
\* One run over the configured tickers.  aux records: whether every
\* collaborator answered, whether the step before was such a run too, the
\* stored bar counts before the run, the tickers for which the provider
\* returned rows that were all stored already, what was requested from the
\* provider, whether the database answered, the stored rows before the run,
\* the rows the provider returned, the frames the run returned, the tickers
\* the provider answered for, and for each ticker the frames a run without
\* that ticker would have returned.
Sync ==
    /\ has_db
    /\ \E avail \in Avails(tickers), boundary \in Boundaries, dbUp \in DbUps :
         LET r == FetchHistoricalIncremental(tickers, BaseDate, avail, boundary, dbUp)
             clean == avail = tickers /\ dbUp
         IN  /\ stock_prices' = [t \in TickerUniverse |-> r[t].stored]
             /\ obs' = [Quiet("sync") EXCEPT
                          !.aux = <<clean,
                                    obs.op = "sync" /\ obs.aux[1],
                                    [t \in TickerUniverse |-> Len(stock_prices[t])],
                                    {t \in tickers : r[t].fetched > 0
                                                     /\ r[t].stored = stock_prices[t]},
                                    [t \in TickerUniverse |-> r[t].requested],
                                    dbUp,
                                    stock_prices,
                                    [t \in TickerUniverse |-> r[t].new_data],
                                    [t \in TickerUniverse |->
                                        [has |-> r[t].has, df |-> r[t].df]],
                                    avail,
                                    [t \in TickerUniverse |->
                                        LET w == FetchHistoricalIncremental(
                                                     tickers \ {t}, BaseDate, avail \ {t},
                                                     boundary, dbUp)
                                        IN  [u \in TickerUniverse |->
                                                [has |-> w[u].has, df |-> w[u].df]]]>>]
    /\ UNCHANGED <<taskVars, wsVars, envVars, db_history, db_state, json_history, pc, engineVars, schedVars>>

\* Midnight passes.
NextDay ==
    /\ today < MaxDay
    /\ today' = today + 1
    /\ obs' = Quiet("newday")
    /\ UNCHANGED <<taskVars, wsVars, slot, provider, cfg_file, has_db, faults, storeVars, pc, engineVars,
                   schedVars>>

\* The provider revises the close of today's bar of a ticker, once per bar.
ReviseBar ==
    /\ \E t \in TickerUniverse, p \in 1 .. MaxPrice :
         /\ provider[t][today] # 0
         /\ provider[t][today] = ClosePrice(t, today, FALSE)
         /\ p # provider[t][today]
         /\ provider' = [provider EXCEPT ![t][today] = p]
    /\ obs' = Quiet("revise")
    /\ UNCHANGED <<taskVars, wsVars, today, slot, cfg_file, has_db, faults, storeVars, pc, engineVars,
                   schedVars>>

InitSync ==
    /\ today = BaseDate
    /\ slot = 0
    /\ provider \in {World(Dates, Dates, FALSE), World(Dates, Dates \ {0, 1}, FALSE),
                     World(Dates \ {2}, Dates, FALSE)}
    /\ cfg_file = TickerUniverse
    /\ has_db = TRUE
    /\ faults \in {{}, {"provider"}, {"ticker", "db"}}
    /\ InitStores
    /\ InitMemory

NextSync ==
    \/ Sync
    \/ NextDay

SpecSync == InitSync /\ [][NextSync]_vars

\* ---- startups, with their backfills, on successive days, against providers
\* whose tickers have days without a bar
InitBackfill ==
    /\ today = BaseDate
    /\ slot = 0
    /\ provider \in {World(Dates, Dates, FALSE), World(Dates, Dates \ {0, 1}, FALSE),
                     World(Dates \ {2}, Dates, FALSE)}
    /\ cfg_file = TickerUniverse
    /\ has_db = FALSE
    /\ faults \in {{}, {"provider"}}
    /\ InitStores
    /\ InitMemory

\* Midnight passes while the service is up.
DayPasses ==
    /\ pc = "live"
    /\ NextDay

NextBackfill ==
    \/ Restart
    \/ Initialize
    \/ BuildHistorical
    \/ StartupEod
    \/ SchedulerStart
    \/ DayPasses
    \/ BuildHistoricalBeforeInitialize

SpecBackfill == InitBackfill /\ [][NextBackfill]_vars

\* ---- the service with a database that rejects the calls of some
\* operations, and a provider that is out at times
InitDb ==
    /\ today = BaseDate
    /\ slot = 0
    /\ provider = World(Dates, Dates, FALSE)
    /\ cfg_file = TickerUniverse
    /\ has_db = TRUE
    /\ faults \in {{}, {"db"}, {"provider"}}
    /\ InitStores
    /\ InitMemory

NextDb ==
    \/ Restart
    \/ Initialize
    \/ BuildHistorical
    \/ StartupEod
    \/ SchedulerStart
    \/ Tick
    \/ AdvanceClock

SpecDb == InitDb /\ [][NextDb]_vars

\* ---- the service with a database, its backfill run twice at startup
NextAgain ==
    \/ NextDb
    \/ BuildHistoricalAgain

SpecAgain == InitDb /\ [][NextAgain]_vars

\* ---- the service with a database, and one divisor adjustment in a run
\* adjust_divisor_for_constituent_change called on the live engine.
AdjustLive ==
    /\ pc = "live"
    /\ ~obs.adjusted
    /\ ~IsNone(divisor)
    /\ \E old_ff_mcap_sum \in {R(1), R(2)}, new_ff_mcap_sum \in {R(1), R(2)} :
         /\ old_ff_mcap_sum # new_ff_mcap_sum
         /\ divisor' = AdjustedDivisor(divisor, old_ff_mcap_sum, new_ff_mcap_sum)
         /\ obs' = [Quiet("adjust") EXCEPT
                      !.aux = <<divisor, old_ff_mcap_sum, new_ff_mcap_sum>>]
    /\ UNCHANGED <<taskVars, wsVars, envVars, storeVars, pc, tickers, stocks_info,
                   last_ff_mcap_sum, index_history, last_snapshot, schedVars>>

InitAdjustRestart ==
    /\ today = BaseDate
    /\ slot = 0
    /\ provider = World(Dates, Dates, FALSE)
    /\ cfg_file = TickerUniverse
    /\ has_db = TRUE
    /\ faults = {}
    /\ InitStores
    /\ InitMemory

NextAdjustRestart ==
    \/ NextDb
    \/ AdjustLive

SpecAdjustRestart == InitAdjustRestart /\ [][NextAdjustRestart]_vars

\* ---- the same runs against a provider that revises the bars it serves
InitStore ==
    /\ today = BaseDate
    /\ slot = 0
    /\ provider = World(Dates, Dates \ {2}, FALSE)
    /\ cfg_file = TickerUniverse
    /\ has_db = TRUE
    /\ faults = {}
    /\ InitStores
    /\ InitMemory

NextStore ==
    \/ Sync
    \/ NextDay
    \/ ReviseBar

SpecStore == InitStore /\ [][NextStore]_vars

\* ---- the application's sync and the seed script saving bars into the same
\* collection, each call suspended between its read and its insert
\* insert_many of the prices whose dates were not among those read.
InsertMany(stored, prices, existing_dates) ==
    stored \o SelectSeq(prices, LAMBDA r : r[1] \notin existing_dates)

\* A caller downloads what the store lacks for a ticker and calls
\* save_stock_prices, which reads the dates stored for the ticker and is
\* suspended before its insert.
SaveFind(p) ==
    /\ savers[p].at = "idle"
    /\ \E t \in TickerUniverse :
         LET last_date == GetLastPriceDate(t, TRUE)
             prices == IF last_date >= 0
                       THEN IF RequestStart(last_date) <= today
                            THEN FetchHistoricalRange(t, RequestStart(last_date), today,
                                                      TRUE, FALSE)
                            ELSE EmptyDF
                       ELSE FetchHistoricalFull(t, TRUE)
         IN  /\ prices # <<>>
             /\ savers' = [savers EXCEPT ![p] =
                              [at |-> "found", ticker |-> t, prices |-> prices,
                               existing_dates |-> RowDates(stock_prices[t])]]
    /\ obs' = Quiet("save_find")
    /\ UNCHANGED <<task, engine_ops, wsVars, envVars, storeVars, pc, engineVars, schedVars>>

\* The suspended call inserts and returns.
SaveInsert(p) ==
    /\ savers[p].at = "found"
    /\ stock_prices' = [stock_prices EXCEPT ![savers[p].ticker] =
                           InsertMany(@, savers[p].prices, savers[p].existing_dates)]
    /\ savers' = [savers EXCEPT ![p] = [at |-> "idle"]]
    /\ obs' = [Quiet("save_insert") EXCEPT !.aux = <<p, savers[p].ticker>>]
    /\ UNCHANGED <<task, engine_ops, wsVars, envVars, db_history, db_state, json_history,
                   pc, engineVars, schedVars>>

NextSave ==
    \/ \E p \in Savers : SaveFind(p)
    \/ \E p \in Savers : SaveInsert(p)
    \/ NextDay

SpecSave == InitStore /\ [][NextSave]_vars

InitWs ==
    /\ today = BaseDate
    /\ slot = 0
    /\ provider = World(Dates, Dates, TRUE)
    /\ cfg_file = TickerUniverse
    /\ has_db = FALSE
    /\ faults = {}
    /\ InitStores
    /\ InitMemory

NextWs ==
    \/ Connect
    \/ Disconnect
    \/ BroadcastBegin
    \/ BroadcastSend
    \/ BroadcastEnd

SpecWs == InitWs /\ [][NextWs]_vars

\* ---- the weights of one calculation, from the prices, the shares and the
\* free-float factors of the constituents it includes
MaxIncluded == 3
ConfiguredFactors == {R(0), <<1, 2>>, R(1)}
KnownShares == {ProviderShares(t) : t \in TickerUniverse}

\* calculate_eod_index: the weight of each included constituent.
ConstituentWeights(prices, shares, factors) ==
    LET inc == DOMAIN prices
        ff_mcap == [i \in inc |-> RMul(RMul(R(prices[i]), R(shares[i])), factors[i])]
        total_ff_mcap == SumOver(inc, ff_mcap)
    IN  [i \in inc |-> Weight(ff_mcap[i], total_ff_mcap)]

\* aux holds the inputs, and then the weights too.
ComputeWeights ==
    /\ obs.op = "init"
    /\ obs' = [Quiet("weights") EXCEPT
                 !.aux = Append(obs.aux,
                                ConstituentWeights(obs.aux[1], obs.aux[2], obs.aux[3]))]
    /\ UNCHANGED <<taskVars, wsVars, envVars, storeVars, pc, engineVars, schedVars>>

InitWeights ==
    /\ today = BaseDate
    /\ slot = 0
    /\ provider = World(Dates, Dates, TRUE)
    /\ cfg_file = TickerUniverse
    /\ has_db = FALSE
    /\ faults = {}
    /\ InitStores
    /\ pc = "constructed"
    /\ tickers = cfg_file
    /\ stocks_info = [t \in TickerUniverse |-> 0]
    /\ divisor = None
    /\ last_ff_mcap_sum = None
    /\ index_history = <<>>
    /\ last_snapshot = NoSnapshot
    /\ running = FALSE
    /\ last_calc_date = 0
    /\ ticked = FALSE
    /\ last_payload = <<>>
    /\ active_connections = <<>>
    /\ bcast = NoBroadcast
    /\ task = NoLoop
    /\ savers = NoSavers
    /\ engine_ops = <<>>
    /\ \E n \in 1 .. MaxIncluded :
         \E prices \in [1 .. n -> 0 .. MaxPrice], shares \in [1 .. n -> KnownShares],
            factors \in [1 .. n -> ConfiguredFactors] :
           obs = [NoObs EXCEPT !.aux = <<prices, shares, factors>>]

NextWeights == ComputeWeights

SpecWeights == InitWeights /\ [][NextWeights]_vars

\* ---- the service, and the entry of one calculation from a ledger whose last
\* close, a free-float sum and a divisor that are given
ChangeLedgers == {<<>>} \cup {<<[date |-> 0, close |-> c]>> :
                                c \in {R(0), <<1, 2>>, R(1), R(BaseValue)}}

\* aux records the ledger, the sum, the divisor and the entry.
ComputeChange ==
    /\ obs.op = "init"
    /\ \E history \in ChangeLedgers, total \in Sums, div \in AdjustDivisors \ {None} :
         obs' = [Quiet("change") EXCEPT
                    !.aux = <<history, total, div,
                              MakeEntry(today, RDiv(total, div), PreviousClose(history),
                                        total, total, div, 1)>>]
    /\ UNCHANGED <<taskVars, wsVars, envVars, storeVars, pc, engineVars, schedVars>>

NextChange ==
    \/ Next
    \/ ComputeChange

SpecChange == Init /\ [][NextChange]_vars

\* ---- a process that has been constructed and has done nothing: the state
\* the calls below are made in, their inputs held in obs.aux
InitIdle ==
    /\ today = BaseDate
    /\ slot = 0
    /\ provider = World(Dates, Dates, TRUE)
    /\ cfg_file = TickerUniverse
    /\ has_db = FALSE
    /\ faults = {}
    /\ InitStores
    /\ pc = "constructed"
    /\ tickers = cfg_file
    /\ stocks_info = [t \in TickerUniverse |-> 0]
    /\ divisor = None
    /\ last_ff_mcap_sum = None
    /\ index_history = <<>>
    /\ last_snapshot = NoSnapshot
    /\ running = FALSE
    /\ last_calc_date = 0
    /\ ticked = FALSE
    /\ last_payload = <<>>
    /\ active_connections = <<>>
    /\ bcast = NoBroadcast
    /\ task = NoLoop
    /\ savers = NoSavers
    /\ engine_ops = <<>>

\* ---- the fundamentals of one ticker, cached in the stock_info collection.
\* Time is in hours; a stored record is <<[shares, updated_at]>>, <<>> is none.
StaleHours == 24
MaxAgeHours == 25
StoredInfos ==
    {<<>>} \cup {<<[shares |-> s, updated_at |-> u]>> :
                   s \in KnownShares, u \in 0 .. MaxAgeHours}
ProvidedInfos == {<<>>} \cup {<<s>> : s \in KnownShares}

\* MongoDBManager.load_stock_info
LoadStockInfo(doc, now, dbUp) ==
    IF ~dbUp \/ doc = <<>> THEN <<>>
    ELSE IF now - doc[1].updated_at > StaleHours THEN <<>>
    ELSE doc

\* DataFetcher.fetch_stock_info_async: what it returns, whether it called the
\* provider, and the stored record afterwards.  provided: what the provider
\* answers, <<>> when the call raises.
FetchStockInfoAsync(doc, provided, now, hasDb, loadUp, saveUp) ==
    LET cached == IF hasDb THEN LoadStockInfo(doc, now, loadUp) ELSE <<>>
    IN  IF cached # <<>>
        THEN [returned |-> <<cached[1].shares>>, called |-> FALSE, stored |-> doc]
        ELSE IF provided = <<>>
        THEN [returned |-> <<>>, called |-> TRUE, stored |-> doc]
        ELSE [returned |-> provided, called |-> TRUE,
              stored |-> IF hasDb /\ saveUp
                         THEN <<[shares |-> provided[1], updated_at |-> now]>>
                         ELSE doc]

\* aux holds the inputs, and then the outcome too.
FetchStockInfo ==
    /\ obs.op = "init"
    /\ obs' = [Quiet("stock_info") EXCEPT
                 !.aux = Append(obs.aux,
                                FetchStockInfoAsync(obs.aux[1], obs.aux[2], obs.aux[3],
                                                    obs.aux[4], obs.aux[5], obs.aux[6]))]
    /\ UNCHANGED <<taskVars, wsVars, envVars, storeVars, pc, engineVars, schedVars>>

InitInfo ==
    /\ InitIdle
    /\ \E doc \in StoredInfos, provided \in ProvidedInfos, hasDb \in BOOLEAN,
          loadUp \in BOOLEAN, saveUp \in BOOLEAN :
         obs = [NoObs EXCEPT !.aux = <<doc, provided, MaxAgeHours, hasDb, loadUp, saveUp>>]

SpecInfo == InitInfo /\ [][FetchStockInfo]_vars

InitTasks ==
    /\ today = BaseDate
    /\ slot = 0
    /\ provider = World(Dates, Dates, FALSE)
    /\ cfg_file = TickerUniverse
    /\ has_db = TRUE
    /\ faults \in {{}, {"db", "json"}}
    /\ InitStores
    /\ InitMemory

NextTasks ==
    \/ StartupBegin
    \/ InitializeEnd
    \/ BuildHistoricalEnd
    \/ StartupEodEnd
    \/ SchedulerStart
    \/ LoopPoll
    \/ LoopPersist
    \/ BroadcastSend
    \/ BroadcastEnd
    \/ ConnectLive
    \/ Stop
    \/ AdvanceClock

SpecTasks == InitTasks /\ [][NextTasks]_vars

\* ================================================================== claims
EodRan(o) == o.op = "eod" \/ (o.op = "tick" /\ o.invoked)

\* C1: after any sequence of EOD calculations (also several on one day) and
\* backfills, the in-memory ledger has at most one entry per date and its
\* entries are in strictly ascending date order.
C1_LedgerStrictlyAscending ==
    \A i \in 1 .. Len(index_history) - 1 :
        index_history[i].date < index_history[i + 1].date

\* A startup calculation recalculated a day the trigger had already
\* calculated, in a ledger that a backfill or earlier days had filled.
C1_Witness ==
    /\ obs.op = "eod" /\ obs.fresh /\ obs.fired_today
    /\ Len(index_history) >= 2

\* C2: once a poll tick of this process has fired on a day and its calculation
\* produced a result, no later poll tick of that day invokes the calculator.
C2_TriggerIdempotent ==
    [][(obs.fired_run /\ today' = today /\ obs'.op = "tick") => ~obs'.invoked]_vars

\* A poll tick inside the window, after the day's fire, did nothing.
C2_Witness ==
    /\ obs.op = "tick" /\ ~obs.invoked /\ obs.fired_run
    /\ slot \in {1, 2} /\ IsWeekday(today)

\* C3 (as claimed): when the calculation a trigger fire invoked produced no new
\* result, today is not recorded as the fired date and nothing is published.
C3_FailedFireNotRecorded ==
    (obs.op = "tick" /\ obs.invoked /\ ~obs.fresh)
        => (~obs.published /\ last_calc_date # today)

C5_FiresEveryWeekday ==
    (pc = "live" /\ slot = 3 /\ IsWeekday(today) /\ obs.whole_window)
        => obs.invoked_today

\* C9: when no ticker has a usable price, calculate_eod_index returns the
\* previous snapshot and leaves the ledger, the divisor, the last free-float
\* sum, the last snapshot and everything persisted unchanged.
C9_AbortChangesNothing ==
    [][(EodRan(obs') /\ obs'.priced = {})
        => (/\ obs'.returned = last_snapshot
            /\ UNCHANGED <<index_history, divisor, last_ff_mcap_sum, last_snapshot,
                           db_history, db_state, json_history>>)]_vars

\* A trigger-invoked calculation found no usable price while a snapshot of
\* an earlier calculation was held.
C9_Witness ==
    /\ obs.op = "tick" /\ obs.invoked /\ obs.priced = {}
    /\ last_snapshot.ready /\ index_history # <<>>

\* C7 (as claimed): the first calculation after a reload_config that changed
\* the constituent set yields, prices being unchanged, the index value of the
\* last calculation before the reload.
C7_ReloadKeepsIndexLevel ==
    (EodRan(obs) /\ obs.fresh /\ obs.before_reload # <<>>)
        => last_snapshot.index.value = obs.before_reload[1]

\* C8 (as claimed): when some configured ticker has a price on the base date
\* and no collaborator fails, the ledger entry that startup (initialize, then
\* build_historical_index) leaves for the base date has value baseValue, also
\* when another ticker's series starts after the base date.
C8_BaseEntryIsBaseValue ==
    (/\ obs.op = "backfill"
     /\ faults = {}
     /\ \E t \in tickers : provider[t][BaseDate] > 0)
        => \A i \in 1 .. Len(index_history) :
               index_history[i].date = BaseDate
                   => index_history[i].value = R(BaseValue)

\* C6: when the divisor is set (and not zero, so that the levels exist) and
\* adjust_divisor_for_constituent_change is called with sums before > 0 and
\* after > 0, after / divisorNew equals before / divisorOld, and so do the two
\* levels rounded as they are published.
C6_DivisorContinuity ==
    (/\ obs.op = "adjust"
     /\ ~IsNone(obs.aux[1])
     /\ RPos(obs.aux[1])
     /\ RPos(obs.aux[2])
     /\ RPos(obs.aux[3]))
        => /\ ~IsNone(divisor) /\ RPos(divisor)
           /\ RDiv(obs.aux[3], divisor) = RDiv(obs.aux[2], obs.aux[1])
           /\ Round(RDiv(obs.aux[3], divisor), 2) = Round(RDiv(obs.aux[2], obs.aux[1]), 2)

\* An adjustment that changed the divisor.
C6_Witness ==
    /\ obs.op = "adjust"
    /\ ~IsNone(obs.aux[1])
    /\ RPos(obs.aux[1])
    /\ RPos(obs.aux[2])
    /\ RPos(obs.aux[3])
    /\ obs.aux[2] # obs.aux[3]
    /\ divisor # obs.aux[1]

\* C10: a run of fetch_historical_incremental that follows another run, the
\* provider and the database answering in both and the day being the same,
\* leaves every ticker's number of stored bars unchanged.
C10_SyncIdempotent ==
    (obs.op = "sync" /\ obs.aux[1] /\ obs.aux[2])
        => \A t \in tickers : Len(stock_prices[t]) = obs.aux[3][t]

\* A second run in which the provider returned bars and all of them were
\* skipped as stored already.
C10_Witness ==
    /\ obs.op = "sync"
    /\ obs.aux[1]
    /\ obs.aux[2]
    /\ obs.aux[4] # {}
    /\ \E t \in obs.aux[4] : Len(stock_prices[t]) > 1

\* The last date stored for ticker t before the sync run just made, -1 when
\* nothing was stored.
StoredThrough(t) ==
    IF obs.aux[7][t] = <<>> THEN -1 ELSE MaxOf(RowDates(obs.aux[7][t]))

\* What C11 says is requested for ticker t.
IncrementalRequest(t) ==
    LET D == StoredThrough(t)
    IN  IF D < 0 THEN obs.aux[5][t] = <<"full">>
        ELSE IF D + 1 > today THEN obs.aux[5][t] = <<>>
        ELSE obs.aux[5][t] = <<"range", D + 1, today>>

ReturnedRows(t) == IF obs.aux[9][t].has THEN obs.aux[9][t].df ELSE <<>>

AscendingDates(df) == \A i \in 1 .. Len(df) - 1 : df[i][1] < df[i + 1][1]

C13_StoredBarsKept ==
    [][\A t \in TickerUniverse :
          /\ Len(stock_prices'[t]) >= Len(stock_prices[t])
          /\ \A i \in 1 .. Len(stock_prices[t]) : stock_prices'[t][i] = stock_prices[t][i]
          /\ Cardinality(RowDates(stock_prices'[t])) = Len(stock_prices'[t])]_vars

\* A sync run in which the provider returned, for a date stored already, a
\* bar with another close, and the store kept the one it had.
C13_Witness ==
    /\ obs.op = "sync" /\ obs.aux[6]
    /\ \E t \in tickers :
         \E i \in 1 .. Len(obs.aux[8][t]), j \in 1 .. Len(obs.aux[7][t]) :
            /\ obs.aux[8][t][i][1] = obs.aux[7][t][j][1]
            /\ obs.aux[8][t][i][2] # obs.aux[7][t][j][2]
            /\ stock_prices[t][j] = obs.aux[7][t][j]

\* C14: after a broadcast during which nobody connected or disconnected,
\* every subscriber whose send failed is out of the active set, every other
\* subscriber the set had was sent the message, once, and is still in the set.
C14_FailedSendIsolated ==
    (obs.op = "broadcast_end" /\ obs.aux[1].calm)
        => LET b == obs.aux[1]
           IN  /\ \A c \in b.failed : c \notin Members(active_connections)
               /\ \A c \in b.start \ b.failed :
                      b.got[c] = 1 /\ c \in Members(active_connections)

\* A broadcast to three subscribers in which the send to one failed.
C14_Witness ==
    /\ obs.op = "broadcast_end"
    /\ obs.aux[1].calm
    /\ Cardinality(obs.aux[1].start) = 3
    /\ Cardinality(obs.aux[1].failed) = 1
    /\ Len(active_connections) = 2

\* C15 (as claimed): after any broadcast, every subscriber that was in the
\* active set from its start to its end received the message exactly once,
\* unless the send to it failed.
C15_InterleavingSafe ==
    obs.op = "broadcast_end"
        => \A c \in obs.aux[1].stayed :
               obs.aux[1].got[c] = 1 \/ c \in obs.aux[1].failed

\* C16: engine operations are serialized: at no time are two of the startup
\* operations (initialize, backfill, startup calculation) and the trigger's
\* calculation in progress at once.
C16_EngineOpsSerialized == Len(engine_ops) <= 1

\* The trigger's calculation is in progress, suspended in a store write.
C16_Witness == engine_ops = <<"trigger">> /\ task.at = "persist"

\* C17: when stop() is called while a trigger-initiated calculation is in
\* flight, the calculation completes before the scheduler terminates: the
\* ledger and the engine state are persisted, the fired date is recorded and
\* the result is broadcast to every subscriber.
C17_StopCompletesCalculation ==
    obs.op = "stop" =>
        LET was == obs.aux[1]
        IN  /\ was.at = "persist" =>
                  /\ db_history = was.r.db_history
                  /\ db_state = was.r.db_state
                  /\ json_history = was.r.json_history
                  /\ last_calc_date = today
                  /\ last_payload = <<BuildBroadcastPayload(was.r.returned, today)>>
            /\ was.at = "broadcast" => obs.aux[2].i >= Len(active_connections)

\* C18: a calculation with usable prices during which every store write fails
\* still updates the ledger and the snapshot in memory and returns the new
\* snapshot, and the trigger still records the date and broadcasts it.
C18_PersistenceFailureNotFatal ==
    /\ (task.at = "persist" /\ task.up = <<FALSE, FALSE>>) =>
          /\ task.r.returned.ready
          /\ last_snapshot = task.r.returned
          /\ \E i \in 1 .. Len(index_history) :
                /\ index_history[i].date = today
                /\ index_history[i].value = last_snapshot.index.value
    /\ (obs.op = "persist" /\ obs.aux[1] = 3 /\ obs.aux[2] = <<FALSE, FALSE>>) =>
          /\ last_snapshot = obs.aux[3]
          /\ last_calc_date = today
          /\ last_payload = <<BuildBroadcastPayload(obs.aux[3], today)>>
          /\ active_connections # <<>> => bcast.on /\ bcast.i = 1

\* Every write of a trigger calculation has failed, the stores have no entry
\* for today, and the broadcast of its result is under way.
C18_Witness ==
    /\ obs.op = "persist" /\ obs.aux[1] = 3 /\ obs.aux[2] = <<FALSE, FALSE>>
    /\ \A i \in 1 .. Len(json_history) : json_history[i].date # today
    /\ bcast.on

\* C19: a latest-snapshot query answers 503 as long as no calculation has
\* produced a result in the running process, and from then on answers with
\* the index or the constituents of the last computed snapshot.
C19_SnapshotQueryReady ==
    obs.op = "query" =>
        LET endpoint == obs.aux[1]
            response == obs.aux[2]
        IN  IF obs.calculated = <<>>
            THEN response = [status |-> 503]
            ELSE /\ response.status = 200
                 /\ endpoint = "index" => response.index = obs.calculated[1].index
                 /\ endpoint = "constituents" =>
                       /\ response.constituents = obs.calculated[1].constituents
                       /\ response.total >= 1

\* A query is answered 503 by a service that is live, the startup calculation
\* having found no price.
C19_Witness ==
    obs.op = "query" /\ obs.calculated = <<>> /\ running /\ obs.aux[2].status = 503

\* A query is answered with the computed snapshot.
C19_WitnessReady ==
    obs.op = "query" /\ obs.calculated # <<>> /\ obs.aux[2].status = 200

\* A weight, which has four decimals, in ten-thousandths.
TenThousandths(w) == w[1] * (10000 \div w[2])

RECURSIVE SumUnits(_)
SumUnits(ws) == IF ws = <<>> THEN 0 ELSE TenThousandths(Head(ws)) + SumUnits(Tail(ws))

\* C20: the weights of the included constituents of a calculation, each
\* rounded to four decimals, sum to 100 within 0.01, whatever the prices and
\* the free-float factors.
C20_WeightsSumTo100 ==
    obs.op = "weights" => Abs(SumUnits(obs.aux[4]) - 1000000) <= 100

\* C21: with the store in use, fetch_stock_info_async returns the stored
\* fundamentals without calling the provider when the stored record is younger
\* than 24 hours, and otherwise calls the provider and, when that succeeds,
\* rewrites the stored record with a fresh timestamp.
C21_CacheThreshold ==
    (obs.op = "stock_info" /\ obs.aux[4] /\ obs.aux[5] /\ obs.aux[6]) =>
        LET doc == obs.aux[1]
            provided == obs.aux[2]
            now == obs.aux[3]
            out == obs.aux[7]
        IN  IF doc # <<>> /\ now - doc[1].updated_at < StaleHours
            THEN ~out.called /\ out.returned = <<doc[1].shares>> /\ out.stored = doc
            ELSE /\ out.called
                 /\ provided # <<>> =>
                       out.stored = <<[shares |-> provided[1], updated_at |-> now]>>

\* The provider was called for the ticker in the run just made, and failed or
\* gave no rows.
NoProviderData(t) == obs.aux[5][t] # <<>> /\ obs.aux[8][t] = EmptyDF

\* C22 as stated: a ticker for which the provider fails or returns no data is
\* omitted from the result of the run.
C22_AsClaimed ==
    obs.op = "sync" =>
        \A t \in tickers : NoProviderData(t) => ~obs.aux[9][t].has

\* C22: a ticker for which the provider fails or returns no data is returned
\* with the rows the store gave for it, and omitted when the store gave none;
\* the frames of every other ticker are those of a run that does not request
\* the failing ticker.
C22_FailureIsolated ==
    obs.op = "sync" =>
        \A t \in tickers : NoProviderData(t) =>
            LET dbUp == obs.aux[6]
                kept == IF dbUp
                        THEN SelectSeq(SortByDate(obs.aux[7][t]),
                                       LAMBDA row : row[1] >= BaseDate)
                        ELSE <<>>
            IN  /\ obs.aux[9][t].has = (kept # <<>>)
                /\ obs.aux[9][t].has => obs.aux[9][t].df = kept
                /\ \A u \in tickers \ {t} : obs.aux[9][u] = obs.aux[11][t][u]

\* The provider failed for one ticker, which is omitted, and the other one is
\* returned with rows the provider gave.
C22_Witness ==
    /\ obs.op = "sync"
    /\ \E t \in tickers, u \in tickers :
         /\ t \notin obs.aux[10] /\ ~obs.aux[9][t].has
         /\ u \in obs.aux[10] /\ obs.aux[9][u].has /\ obs.aux[8][u] # EmptyDF

\* C23: a poll tick invokes the calculator exactly when the day is Monday to
\* Friday, the time is in hour 17 with minute at most 1, and today is not the
\* last-fired date; a poll tick that does not invoke it changes nothing of the
\* scheduler, the engine or the stores.
C23_TriggerCondition ==
    [][obs'.op = "tick" =>
          /\ obs'.invoked <=> (/\ (today + 2) % 7 \in 0 .. 4
                               /\ SlotHour(slot) = 17 /\ SlotMinute(slot) <= 1
                               /\ today # last_calc_date)
          /\ ~obs'.invoked => UNCHANGED <<running, last_calc_date, last_payload,
                                          engineVars, storeVars>>]_vars

\* A poll tick at 17:02 on a weekday that has not fired invoked nothing.
C23_Witness ==
    /\ obs.op = "tick" /\ ~obs.invoked
    /\ slot = 3 /\ IsWeekday(today) /\ last_calc_date # today

\* A poll tick inside the window on a Saturday invoked nothing.
C23_WitnessWeekend ==
    obs.op = "tick" /\ ~obs.invoked /\ slot = 1 /\ ~IsWeekday(today)

\* C24: with the loop running and polling once a minute, if the last-fired
\* date is not today when the window of a Monday-to-Friday begins, a poll tick
\* inside the window has invoked the calculator by 17:01.
C24_PollingHitsWindow ==
    (obs.armed /\ (today + 2) % 7 \in 0 .. 4 /\ slot \in {2, 3}) => obs.invoked_today

\* The window of a Friday has passed, the loop was running with another
\* last-fired date when it began, and a tick inside it invoked the calculator.
C24_Witness ==
    obs.armed /\ (today + 2) % 7 = 4 /\ slot = 3 /\ obs.invoked_today

\* C25: a calculation that produced a result changes only today's ledger
\* entry: an entry dated today is overwritten where it stands and the ledger
\* keeps its length, otherwise one entry dated today is appended; every entry
\* of another date is left as it was.
C25_OnlyTodaysEntryChanges ==
    [][(EodRan(obs') /\ obs'.fresh) =>
          LET old == index_history
              new == index_history'
          IN  IF today \in HistoryDates(old)
              THEN /\ Len(new) = Len(old)
                   /\ \A i \in 1 .. Len(old) :
                         /\ new[i].date = old[i].date
                         /\ old[i].date # today => new[i] = old[i]
              ELSE /\ Len(new) = Len(old) + 1
                   /\ new[Len(new)].date = today
                   /\ \A i \in 1 .. Len(old) : new[i] = old[i]]_vars

\* A calculation has overwritten today's entry of a ledger that holds entries
\* of earlier days, with another value.
C25_Witness ==
    /\ EodRan(obs) /\ obs.fresh
    /\ Len(index_history) >= 2
    /\ index_history[Len(index_history)].date = today
    /\ index_history[Len(index_history)].previous_close
         # index_history[Len(index_history) - 1].close

\* The change fields an entry must have for an index value and a previous
\* close.
ChangeFieldsAre(e, index_value, prev) ==
    /\ e.previous_close = Round(prev, 2)
    /\ e.change = Round(RSub(index_value, prev), 2)
    /\ e.change_percent = IF RIsZero(prev) THEN R(0)
                          ELSE Round(RMul(RDiv(RSub(index_value, prev), prev), R(100)), 4)

\* C26: the entry of a calculation takes as previous close the close of the
\* last ledger entry as the calculation found it, or the base value when the
\* ledger was empty; its change is the index value less that close and its
\* change percent is the change over that close times 100, and 0 when that
\* close is 0.
C26_ChangeFromPreviousClose ==
    [][/\ (EodRan(obs') /\ obs'.fresh) =>
            LET e == index_history'[CHOOSE i \in 1 .. Len(index_history') :
                                       index_history'[i].date = today]
                prev == IF index_history = <<>> THEN R(BaseValue)
                        ELSE index_history[Len(index_history)].close
            IN  ChangeFieldsAre(e, RDiv(e.ff_mcap_sum, e.divisor), prev)
       /\ obs'.op = "change" =>
            LET history == obs'.aux[1]
                prev == IF history = <<>> THEN R(BaseValue)
                        ELSE history[Len(history)].close
            IN  ChangeFieldsAre(obs'.aux[4], RDiv(obs'.aux[2], obs'.aux[3]), prev)]_vars

\* An entry computed from a previous close of 0 and an index value that is
\* not: its change percent is 0.
C26_Witness ==
    /\ obs.op = "change"
    /\ obs.aux[1] # <<>> /\ RIsZero(obs.aux[1][1].close)
    /\ RPos(obs.aux[4].value) /\ RIsZero(obs.aux[4].change_percent)

\* A calculation has overwritten today's entry, and its previous close is the
\* close that entry had, not the close of the day before.
C26_WitnessOverwrite ==
    /\ EodRan(obs) /\ obs.fresh
    /\ Len(index_history) >= 2
    /\ index_history[Len(index_history)].date = today
    /\ index_history[Len(index_history)].previous_close
         # index_history[Len(index_history) - 1].close
    /\ RIsZero(index_history[Len(index_history)].change)

\* C27: every ledger entry records the divisor that was in effect for it: its
\* close is its free-float sum over its own divisor, rounded to 2 decimals;
\* and after a calculation that produced a result the engine's divisor is the
\* divisor of the latest entry.
C27_EntryRecordsItsDivisor ==
    /\ \A i \in 1 .. Len(index_history) :
          LET e == index_history[i]
          IN  /\ ~IsNone(e.divisor)
              /\ e.close = Round(RDiv(e.ff_mcap_sum, e.divisor), 2)
    /\ (EodRan(obs) /\ obs.fresh) =>
          divisor = index_history[Len(index_history)].divisor

\* The trigger's calculation has added an entry, with a close other than the
\* base value, to a ledger that the backfill began.
C27_Witness ==
    /\ obs.op = "tick" /\ obs.fresh
    /\ Len(index_history) >= 2
    /\ index_history[Len(index_history)].close # R(BaseValue)
    /\ index_history[Len(index_history) - 1].close # R(BaseValue)

\* C28: adjust_divisor_for_constituent_change called with the divisor unset
\* or with a prior free-float sum of 0 leaves the divisor and the rest of the
\* engine's state as they were, and no call turns a set divisor into an
\* undefined one (no division by zero).
C28_NoOpWhenUnsetOrZero ==
    [][obs'.op = "adjust" =>
         /\ (IsNone(divisor) \/ RIsZero(obs'.aux[2]))
               => /\ divisor' = divisor
                  /\ UNCHANGED <<tickers, stocks_info, last_ff_mcap_sum,
                                 index_history, last_snapshot>>
         /\ ~IsNone(divisor) => ~IsNone(divisor')]_vars

\* A call with a set divisor, a prior sum of 0 and a positive new sum.
C28_Witness ==
    /\ obs.op = "adjust"
    /\ ~IsNone(obs.aux[1])
    /\ RIsZero(obs.aux[2])
    /\ RPos(obs.aux[3])
    /\ divisor = obs.aux[1]

\* A call with the divisor unset and both sums positive.
C28_WitnessUnset ==
    /\ obs.op = "adjust"
    /\ IsNone(obs.aux[1])
    /\ RPos(obs.aux[2])
    /\ RPos(obs.aux[3])
    /\ IsNone(divisor)

\* Entries of the ledger after a step that the ledger before it did not hold.
NewEntries == {index_history'[j] : j \in 1 .. Len(index_history')}
                  \ {index_history[i] : i \in 1 .. Len(index_history)}

\* C29: a backfill that finds a non-empty ledger keeps every entry of it as
\* it was and adds entries only for dates the ledger did not have; a backfill
\* that finds the divisor unset and processes a date leaves it at the
\* free-float sum of the first processed date over the base value, and one
\* that finds it set leaves it as it was.
C29_BackfillOnlyAddsMissingDates ==
    [][obs'.op = "backfill" =>
         /\ index_history # <<>> =>
               /\ \A i \in 1 .. Len(index_history) :
                     \E j \in 1 .. Len(index_history') :
                         index_history'[j] = index_history[i]
               /\ \A e \in NewEntries : e.date \notin HistoryDates(index_history)
               /\ Cardinality(HistoryDates(index_history')) = Len(index_history')
         /\ ~IsNone(divisor) => divisor' = divisor
         /\ (IsNone(divisor) /\ NewEntries # {}) =>
               \E e \in NewEntries :
                   /\ \A f \in NewEntries : e.date <= f.date
                   /\ divisor' = RDiv(e.ff_mcap_sum, R(BaseValue))]_vars

\* A backfill found a ledger with entries and a set divisor and added an
\* entry for a later date.
C29_Witness ==
    /\ obs.op = "backfill"
    /\ obs.aux[1] # <<>>
    /\ Len(index_history) > Len(obs.aux[1])
    /\ divisor = obs.aux[2]

\* A backfill found the divisor unset and established it.
C29_WitnessUnset ==
    /\ obs.op = "backfill"
    /\ IsNone(obs.aux[2])
    /\ index_history # <<>>
    /\ divisor = RDiv(index_history[1].ff_mcap_sum, R(BaseValue))

\* The close of the most recent bar of a frame dated on or before d.
LastBarClose(df, d) ==
    LET S == {i \in 1 .. Len(df) : df[i][1] <= d}
        i == CHOOSE k \in S : \A l \in S : df[l][1] <= df[k][1]
    IN  df[i][2]

\* Tickers of the index with a bar on or before d in the frames of the last
\* backfill.
HasBarByDate(d) ==
    {t \in tickers : /\ obs.aux[3][t].has
                      /\ \E i \in 1 .. Len(obs.aux[3][t].df) : obs.aux[3][t].df[i][1] <= d}

\* Dates the last backfill processed: the dates from the base date on with a
\* bar in some frame, less the dates of the ledger it found when that ledger
\* had entries.
ProcessedDates ==
    {d \in Dates :
        /\ d >= BaseDate
        /\ \E t \in TickerUniverse :
              obs.aux[3][t].has /\ d \in RowDates(obs.aux[3][t].df)
        /\ (obs.aux[1] = <<>> \/ d \notin HistoryDates(obs.aux[1]))}

\* C30: for each date a backfill processed, the ledger has no entry when no
\* ticker has a bar on or before the date, and otherwise one entry whose
\* constituent count is the number of tickers with such a bar and whose
\* free-float sum is made of the close of each such ticker's most recent bar
\* on or before the date.
C30_CarryForward ==
    (obs.op = "backfill" /\ obs.aux[3] # <<>>) =>
        \A d \in ProcessedDates :
            LET c == HasBarByDate(d)
                es == {i \in 1 .. Len(index_history) : index_history[i].date = d}
            IN  IF c = {} THEN es = {}
                ELSE /\ Cardinality(es) = 1
                     /\ \A i \in es :
                           /\ index_history[i].num_constituents = Cardinality(c)
                           /\ index_history[i].ff_mcap_sum =
                                 SumOver(c, [t \in c |->
                                     FFMarketCap(stocks_info, t,
                                                 LastBarClose(obs.aux[3][t].df, d))])

\* A backfill processed a date on which one ticker had no bar but an earlier
\* one, and counted both tickers.
C30_Witness ==
    /\ obs.op = "backfill" /\ obs.aux[3] # <<>>
    /\ \E d \in ProcessedDates :
          /\ \E t \in HasBarByDate(d) : d \notin RowDates(obs.aux[3][t].df)
          /\ \E i \in 1 .. Len(index_history) :
                index_history[i].date = d /\ index_history[i].num_constituents = 2

\* A backfill processed a date before the first bar of one ticker and
\* counted the other alone.
C30_WitnessNoBarYet ==
    /\ obs.op = "backfill" /\ obs.aux[3] # <<>>
    /\ \E d \in ProcessedDates :
          /\ \E t \in tickers : obs.aux[3][t].df # EmptyDF /\ t \notin HasBarByDate(d)
          /\ \E i \in 1 .. Len(index_history) :
                index_history[i].date = d /\ index_history[i].num_constituents = 1

\* The engine state document load_engine_state returns, when it holds a
\* divisor.
StoredDivisor(up) ==
    IF up /\ db_state # <<>> /\ ~IsNone(db_state[1].divisor)
    THEN <<db_state[1].divisor>> ELSE <<>>

\* C31: after initialize() with a non-empty persisted ledger the divisor and
\* the last free-float sum are those of the latest ledger entry and the base
\* calibration has not run; with an empty ledger and a divisor in the engine
\* state that divisor is used, again without calibration; with neither, the
\* calibration runs and its divisor is in the engine state document at once
\* when the store takes the write.
C31_CalibrationOnlyWithoutDivisor ==
    [][obs'.op = "initialize" =>
         LET up == obs'.aux[1]
             calibrated == obs'.aux[2]
             n == Len(index_history')
         IN  /\ n > 0 =>
                   /\ divisor' = index_history'[n].divisor
                   /\ last_ff_mcap_sum' = index_history'[n].ff_mcap_sum
                   /\ ~calibrated
             /\ (n = 0 /\ StoredDivisor(up) # <<>>) =>
                   /\ divisor' = StoredDivisor(up)[1]
                   /\ ~calibrated
             /\ (n = 0 /\ StoredDivisor(up) = <<>>) =>
                   /\ calibrated
                   /\ ~IsNone(divisor')
                   /\ up => (db_state' # <<>> /\ db_state'[1].divisor = divisor')
             /\ ~calibrated => UNCHANGED <<db_state, stock_prices>>]_vars

\* initialize() after a restart recovered the divisor of the latest entry of
\* a stored ledger, which is not the divisor a calibration would give.
C31_Witness ==
    /\ obs.op = "initialize"
    /\ ~obs.aux[2]
    /\ index_history # <<>>
    /\ divisor = index_history[Len(index_history)].divisor

\* initialize() found no ledger and took the divisor of the engine state.
C31_WitnessState ==
    /\ obs.op = "initialize"
    /\ ~obs.aux[2]
    /\ index_history = <<>>
    /\ db_state # <<>> /\ divisor = db_state[1].divisor

\* initialize() found neither and calibrated.
C31_WitnessCalibrated ==
    /\ obs.op = "initialize"
    /\ obs.aux[2]
    /\ db_state # <<>> /\ divisor = db_state[1].divisor

\* C32: after an EOD calculation that produced a result, or a backfill that
\* went on to write, with the database accepting the writes, the database's
\* ledger holds every entry of the in-memory ledger, those of earlier cycles
\* whose writes were rejected included.
C32_LostWriteRecovered ==
    (\/ EodRan(obs) /\ obs.fresh /\ obs.aux[1]
     \/ obs.op = "backfill" /\ obs.aux[4])
        => \A i \in 1 .. Len(index_history) :
               \E j \in 1 .. Len(db_history) : db_history[j] = index_history[i]

\* The trigger's calculation found the entry of an earlier day missing from
\* the database, in a run that had fired before, and the database now holds
\* the whole ledger.
C32_Witness ==
    /\ obs.op = "tick" /\ obs.fresh /\ obs.aux[1]
    /\ \E d \in obs.aux[2] : d < today
    /\ Len(db_history) = Len(index_history)
    /\ Len(index_history) >= 2

\* The rows of a frame, as a set.
BarsOf(df) == {df[i] : i \in 1 .. Len(df)}

\* The bars of ticker t, from the base date on, that the store held before
\* the last sync run and that the run could read.
LoadedBars(t) ==
    IF obs.aux[6] THEN {r \in BarsOf(obs.aux[7][t]) : r[1] >= BaseDate} ELSE {}

C33_WitnessStoredOnly ==
    /\ obs.op = "sync"
    /\ \E t \in tickers :
         /\ obs.aux[8][t] # <<>>
         /\ \E r \in LoadedBars(t) :
               r \in BarsOf(obs.aux[9][t].df) /\ \A n \in BarsOf(obs.aux[8][t]) : n[1] > r[1]

\* C34: in every ledger each entry's previous_close is the close of the
\* entry before it in date order, and the base value for the earliest entry.
C34_PreviousCloseChain ==
    \A i \in 1 .. Len(index_history) :
        index_history[i].previous_close =
            (IF i = 1 THEN Round(R(BaseValue), 2) ELSE index_history[i - 1].close)

\* C35: a divisor that is set is strictly positive.
C35_DivisorPositive ==
    ~IsNone(divisor) => RPos(divisor)

\* C36: after initialize() with the store answering, in a process that
\* follows one in which the divisor was adjusted, the divisor is the one the
\* earlier process stopped with.
C36_AdjustmentSurvivesRestart ==
    (obs.op = "initialize" /\ obs.aux[1] /\ obs.at_stop # <<>>)
        => divisor = obs.at_stop[1]

\* C37: when the trigger has published an eod_update, the ledger has an entry
\* of the update's date whose close is the update's index value, and the
\* calculation of that fire produced it.
C37_BroadcastIsTodaysEntry ==
    (obs.op = "tick" /\ obs.published) =>
        /\ obs.fresh
        /\ \E i \in 1 .. Len(index_history) :
              /\ index_history[i].date = last_payload[1].date
              /\ index_history[i].close = last_payload[1].index.value

C39_NoDuplicateBars ==
    \A t \in TickerUniverse :
        Cardinality(RowDates(stock_prices[t])) = Len(stock_prices[t])
====
